---- MODULE Spec2Model ----
(***************************************************************************)
(* Model of the script execution subsystem of the bash script CLI tool     *)
(* (src/bash_executor.py): BashExecutor.execute, _run_script and           *)
(* interrupt_execution, together with the operating-system processes the   *)
(* run creates.  One controller, one thread inside execute, a second       *)
(* thread calling interrupt_execution, and a discrete clock that counts    *)
(* seconds since _run_script took start_time.                              *)
(***************************************************************************)
EXTENDS Integers, Sequences, FiniteSets, TLC

(* ---------------------------------------------------------------- bounds *)
MaxContentLen == 2
MaxTimeoutArg == 2
ClockSlack == 1
MaxPrepLen == 4
MaxDepLen == 4
MaxLines == 1
MaxNameLen == 3

(* ----------------------------------------------------- program constants *)
DefaultTimeout == 30
GracePeriod == 5

None == "None"

\* the clock stops once every deadline of the longest run is behind it
MaxClock == DefaultTimeout + GracePeriod + ClockSlack

Chars == {" ", "\n", "x"}
Whitespace == {" ", "\n"}

\* a Python str is a string; all strings over an alphabet up to a length
RECURSIVE StringsOver(_, _)
StringsOver(alphabet, n) ==
  IF n = 0 THEN {""}
  ELSE LET shorter == StringsOver(alphabet, n - 1)
       IN shorter \cup {s \o c : s \in shorter, c \in alphabet}

Contents == StringsOver(Chars, MaxContentLen)

\* an optional value is the empty sequence (None) or a sequence of one element
NoValue == <<>>
Some(v) == <<v>>
ValueOf(o) == o[1]

TimeoutArgs == {NoValue} \cup {Some(n) : n \in {0, -1} \cup (1..MaxTimeoutArg)}

ExitCodes == {0, 3}
SpawnErrors == {"[Errno 2] No such file or directory: '/bin/bash'",
                "[Errno 13] Permission denied: '/bin/bash'"}
DecodeError == "'utf-8' codec can't decode byte 0xff in position 0: invalid start byte"
Outputs == {"", "hi\n"}

SIGINT == "SIGINT"
SIGTERM == "SIGTERM"
SIGKILL == "SIGKILL"
SIGHUP == "SIGHUP"

Signum(sig) ==
  CASE sig = SIGHUP -> 1 [] sig = SIGINT -> 2 [] sig = SIGKILL -> 9
    [] sig = SIGTERM -> 15

\* signals that end the bash process without the controller having sent
\* them: the script's own "kill -HUP $$", a kill from another process
OwnSignals == {SIGHUP, SIGKILL}

Profiles == [ignInt : BOOLEAN, ignTerm : BOOLEAN]
DescProfiles == [ignInt : BOOLEAN, ignTerm : BOOLEAN, holdsPipes : BOOLEAN]
NoProfile == [ignInt |-> FALSE, ignTerm |-> FALSE]
NoDescProfile == [ignInt |-> FALSE, ignTerm |-> FALSE, holdsPipes |-> FALSE]

VARIABLES
  pc,            \* position of the thread inside execute / _run_script
  content,       \* script_content argument, until it is written to the file
  script,        \* text returned by _prepare_script, where that is followed
  deps,          \* list returned by get_script_dependencies, where followed
  timeoutArg,    \* timeout argument, until the effective timeout is fixed
  effTimeout,    \* timeout after "timeout or self.timeout"
  self_timeout,  \* BashExecutor.timeout
  handle,        \* BashExecutor.current_process: None or the Popen object
  tmp,           \* the call's temporary script file: none, created, written,
                 \* unlink_failed (still on disk after os.unlink raised)
  leader,        \* the spawned /bin/bash: none, alive, zombie, reaped
  status,        \* wait status of the leader as Popen.returncode reports it
  lprof,         \* which signals the leader ignores
  desc,          \* a background descendant in the leader's group: none, alive, dead
  dprof,         \* which signals the descendant ignores, whether it holds the pipes
  elapsed,       \* seconds since start_time
  graceStart,    \* value of elapsed when wait(timeout=5) was entered
  exitedInTime,  \* the leader exited while elapsed < effTimeout
  sigLog,        \* signals the run thread sent to the group, in order
  result,        \* ExecutionResult built by _run_script, if any
  outcome,       \* how the last execute call ended: none, result, ValueError, OSError
  pend,          \* exception on its way through except / finally
  trail,         \* phases the call in flight has passed through
  ipc,           \* position of the thread inside interrupt_execution
  ipid,          \* pid read by interrupt_execution: none, cur, stale
  ipgid,         \* pgid obtained by interrupt_execution: none, run, old, foreign
  vpc,           \* position of the thread inside validate_script_syntax
  vcontent,      \* its script_content argument
  vtmp,          \* its temporary file: none, created, written, unlink_failed
  vfile,         \* text written to that file
  vrun,          \* how its subprocess.run call ended
  vout,          \* what the last validate_script_syntax call gave its caller
  files,         \* the script files in script_dir: file name -> text written
  metadata,      \* ScriptManager.metadata: script name -> entry
  metadata_file, \* .metadata.json: absent, or the map last dumped to it
  saved,         \* history: name -> what the last successful save_script or
                 \* delete_script under that name did: the content saved, or
                 \* no value once deleted
  sop,           \* the last ScriptManager call: operation, name, outcome
  cpc,           \* where the CLI is: main (the prompt of run), edit (the
                 \* prompt of _edit_current_script), exited
  current_script_name,  \* BashScriptCLI.current_script_name, optional
  script_lines,  \* BashScriptCLI.script_lines
  temp_lines,    \* temp_lines of _edit_current_script, while it runs
  edit_from,     \* history: script_lines when the editing session in
                 \* progress started
  cout,          \* the last command or line the CLI handled: what was asked,
                 \* shown, answered and passed to BashExecutor.execute
  iout           \* how the last interrupt_execution call ended: none, pending,
                 \* noop, AttributeError, swallowed, sent (SIGINT reached the
                 \* group of the run being followed), sent_before (that of an
                 \* earlier run), sent_old, sent_foreign (a group that is not
                 \* the run's any more)

vars == <<pc, content, script, timeoutArg, effTimeout, self_timeout, handle, tmp,
          leader, status, lprof, desc, dprof, elapsed, graceStart, exitedInTime,
          sigLog, result, outcome, pend, trail, ipc, ipid, ipgid, iout,
          vpc, vcontent, vtmp, vfile, vrun, vout, deps,
          files, metadata, metadata_file, saved, sop,
          cpc, current_script_name, script_lines, temp_lines, edit_from, cout>>

argVars == <<content, script, timeoutArg, effTimeout, self_timeout>>
procVars == <<leader, status, lprof, desc, dprof, exitedInTime>>
timeVars == <<elapsed, graceStart>>
resVars == <<result, outcome, pend, trail>>
intVars == <<ipc, ipid, ipgid, iout>>
valVars == <<vpc, vcontent, vtmp, vfile, vrun, vout>>
storeVars == <<files, metadata, metadata_file, saved, sop>>
cliVars == <<cpc, current_script_name, script_lines, temp_lines, edit_from, cout>>

(* ------------------------------------------------------- pure functions *)

\* str.strip(): drop leading and trailing whitespace
CharAt(s, i) == SubSeq(s, i, i)

RECURSIVE LStrip(_)
LStrip(s) == IF Len(s) > 0 /\ CharAt(s, 1) \in Whitespace THEN LStrip(Tail(s)) ELSE s

RECURSIVE RStrip(_)
RStrip(s) ==
  IF Len(s) > 0 /\ CharAt(s, Len(s)) \in Whitespace
  THEN RStrip(SubSeq(s, 1, Len(s) - 1)) ELSE s

Strip(s) == RStrip(LStrip(s))

\* "not script_content.strip()"
IsBlank(s) == Strip(s) = ""

\* "timeout = timeout or self.timeout": None and 0 are falsy
EffectiveTimeout(t, dflt) == IF t = NoValue \/ ValueOf(t) = 0 THEN dflt ELSE ValueOf(t)

TimeoutMessage(t) == "Script execution timed out after " \o ToString(t) \o " seconds"

\* an error text without the fixed prefix
ErrorMessageBare(e) == e

\* f"Execution error: {str(e)}"
ErrorMessage(e) == "Execution error: " \o e

CompletedResult(rc, out, err, time) ==
  [returncode |-> rc, stdout |-> out, stderr |-> err,
   execution_time |-> time, timeout |-> FALSE]

\* a timeout result whose message names the controller's default
TimeoutResultDefaultN(t, time) ==
  [returncode |-> -1, stdout |-> "", stderr |-> TimeoutMessage(DefaultTimeout),
   execution_time |-> time, timeout |-> TRUE]

TimeoutResult(t, time) ==
  [returncode |-> -1, stdout |-> "", stderr |-> TimeoutMessage(t),
   execution_time |-> time, timeout |-> TRUE]

ErrorResult(e, time) ==
  [returncode |-> -1, stdout |-> "", stderr |-> ErrorMessage(e),
   execution_time |-> time, timeout |-> FALSE]

\* str.startswith(prefix)
StartsWith(s, prefix) == Len(s) >= Len(prefix) /\ SubSeq(s, 1, Len(prefix)) = prefix

\* position of the first newline of s, 0 when s has none
RECURSIVE FirstNewline(_, _)
FirstNewline(s, i) ==
  IF i > Len(s) THEN 0
  ELSE IF CharAt(s, i) = "\n" THEN i ELSE FirstNewline(s, i + 1)

\* '\n'.join(s.split('\n')[1:])
AfterFirstLine(s) ==
  LET k == FirstNewline(s, 1) IN IF k = 0 THEN "" ELSE SubSeq(s, k + 1, Len(s))

\* '\n'.join(safety_header)
SafetyHeader ==
  "#!/bin/bash\n"
  \o "\n"
  \o "# Script execution safety measures\n"
  \o "set -euo pipefail  # Exit on error, undefined vars, pipe failures\n"
  \o "\n"
  \o "# Function to handle cleanup on exit\n"
  \o "cleanup() {\n"
  \o "    echo \"Script execution finished\"\n"
  \o "}\n"
  \o "trap cleanup EXIT\n"
  \o "\n"
  \o "# Script content begins here"

\* the test that decides whether the first line is dropped
HasShebang(s) == StartsWith(s, "#!/")

\* _prepare_script(content): the list "lines" built at the top of the method
\* is never used again and has no part in the value returned
PrepareScript(c) ==
  LET stripped == Strip(c)
      script_content == IF HasShebang(stripped) THEN AfterFirstLine(stripped)
                        ELSE stripped
  IN SafetyHeader \o "\n" \o "" \o "\n" \o script_content

Ignores(prof, sig) ==
  \/ sig = SIGINT /\ prof.ignInt
  \/ sig = SIGTERM /\ prof.ignTerm

\* the output pipes have a writer left: communicate() has not seen EOF
PipesOpen == leader = "alive" \/ (desc = "alive" /\ dprof.holdsPipes)

\* some process of the run's group can still take a signal
GroupAlive == leader = "alive" \/ desc = "alive"

\* the group id still names the run's group
GroupExists == leader \in {"alive", "zombie"} \/ desc = "alive"

Killed(sig) == leader = "alive" /\ ~Ignores(lprof, sig)

LeaderAfter(sig) == IF Killed(sig) THEN "zombie" ELSE leader

\* Popen.returncode of a child ended by a signal is the negated signal number
StatusAfter(sig) == IF Killed(sig) THEN 0 - Signum(sig) ELSE status

DescAfter(sig) ==
  IF desc = "alive" /\ ~Ignores(dprof, sig) THEN "dead" ELSE desc

\* os.killpg(pgid, sig) reaching the run's group
Deliver(sig) ==
  /\ leader' = LeaderAfter(sig)
  /\ status' = StatusAfter(sig)
  /\ desc' = DescAfter(sig)
  /\ exitedInTime' = IF Killed(sig) THEN elapsed < effTimeout ELSE exitedInTime
  /\ lprof' = IF Killed(sig) THEN NoProfile ELSE lprof
  /\ dprof' = IF DescAfter(sig) = "alive" THEN dprof ELSE NoDescProfile

\* no validate_script_syntax call has been made
NoVOut == [kind |-> "none", valid |-> FALSE, message |-> ""]

\* subprocess.run has not been called
NoVRun == [kind |-> "none", rc |-> 0, stderr |-> ""]

\* BashScriptCLI has handled no command
NoCommand ==
  [cmd |-> "none", asked |-> "none", shown |-> "", answer |-> "none",
   executed |-> <<>>]

\* BashScriptCLI.__init__, then run() waiting at its prompt
CliIdle ==
  /\ cpc = "main"
  /\ current_script_name = <<>>
  /\ script_lines = <<>>
  /\ temp_lines = <<>>
  /\ edit_from = <<>>
  /\ cout = NoCommand

\* no ScriptManager call has been made
NoStoreCall ==
  [op |-> "none", name |-> "", raised |-> "", text |-> "", flag |-> FALSE,
   listing |-> <<>>]

\* ScriptManager.__init__ on a fresh directory: no script, no metadata file
StoreIdle ==
  /\ files = [f \in {} |-> ""]
  /\ metadata = [n \in {} |-> ""]
  /\ metadata_file = NoValue
  /\ saved = [n \in {} |-> ""]
  /\ sop = NoStoreCall

ValIdle ==
  /\ vpc = "idle"
  /\ vcontent = ""
  /\ vtmp = "none"
  /\ vfile = ""
  /\ vrun = NoVRun
  /\ vout = NoVOut

Init ==
  /\ ValIdle
  /\ StoreIdle
  /\ CliIdle
  /\ deps = <<>>
  /\ pc = "idle"
  /\ content = ""
  /\ script = ""
  /\ timeoutArg = NoValue
  /\ effTimeout = 0
  /\ self_timeout = DefaultTimeout
  /\ handle = None
  /\ tmp = "none"
  /\ leader = "none"
  /\ status = 0
  /\ lprof = NoProfile
  /\ desc = "none"
  /\ dprof = NoDescProfile
  /\ elapsed = 0
  /\ graceStart = 0
  /\ exitedInTime = FALSE
  /\ sigLog = <<>>
  /\ result = NoValue
  /\ outcome = "none"
  /\ pend = None
  /\ trail = <<>>
  /\ ipc = "idle"
  /\ ipid = "none"
  /\ ipgid = "none"
  /\ iout = "none"

(* ------------------------------------------------------------ execute() *)

\* execute has returned or raised and its caller has taken the outcome: the
\* ended run's result, phases and processes are no longer followed
Discard ==
  /\ pc = "idle"
  /\ outcome # "none"
  /\ content' = ""
  /\ timeoutArg' = NoValue
  /\ effTimeout' = 0
  /\ tmp' = "none"
  /\ result' = NoValue
  /\ outcome' = "none"
  /\ trail' = <<>>
  /\ leader' = "none"
  /\ status' = 0
  /\ lprof' = NoProfile
  /\ desc' = "none"
  /\ dprof' = NoDescProfile
  /\ elapsed' = 0
  /\ graceStart' = 0
  /\ exitedInTime' = FALSE
  /\ sigLog' = <<>>
  /\ ipid' = IF ipid = "cur" THEN "stale" ELSE ipid
  /\ ipgid' = IF ipgid = "run" THEN "old" ELSE ipgid
  /\ iout' = IF iout = "sent" THEN "sent_before" ELSE iout
  /\ UNCHANGED <<pc, script, self_timeout, handle, pend, ipc>>
  /\ UNCHANGED <<valVars, deps, storeVars, cliVars>>

\* a caller enters execute(script_content, timeout)
Call(c, t) ==
  /\ pc = "idle"
  /\ outcome = "none"
  /\ pc' = "called"
  /\ content' = c
  /\ timeoutArg' = t
  /\ trail' = <<"Idle">>
  /\ UNCHANGED <<script, effTimeout, self_timeout, handle, tmp, sigLog, result, outcome, pend>>
  /\ UNCHANGED <<procVars, timeVars, intVars>>
  /\ UNCHANGED <<valVars, deps, storeVars, cliVars>>

\* an emptiness check that forgets strip()
RaisesOnlyWhenEmpty(c) == c = ""

\* "if not script_content.strip(): raise ValueError"
RaisesValueError(c) == IsBlank(c)

\* the emptiness check, then "timeout = timeout or self.timeout"
Validate ==
  /\ pc = "called"
  /\ IF RaisesValueError(content)
     THEN /\ pc' = "idle"
          /\ outcome' = "ValueError"
          /\ trail' = Append(trail, "Idle")
          /\ UNCHANGED <<effTimeout, timeoutArg>>
     ELSE /\ pc' = "mktemp"
          /\ effTimeout' = EffectiveTimeout(timeoutArg, self_timeout)
          /\ timeoutArg' = NoValue
          /\ trail' = Append(trail, "Preparing")
          /\ UNCHANGED outcome
  /\ UNCHANGED <<content, script, self_timeout, handle, tmp, sigLog, result, pend>>
  /\ UNCHANGED <<procVars, timeVars, intVars>>
  /\ UNCHANGED <<valVars, deps, storeVars, cliVars>>

\* tempfile.NamedTemporaryFile(delete=False): creation may fail with OSError,
\* which leaves execute as it is raised
MkTemp ==
  /\ pc = "mktemp"
  /\ \/ /\ tmp' = "created"
        /\ pc' = "write"
        /\ UNCHANGED <<outcome, trail>>
     \/ /\ pc' = "idle"
        /\ outcome' = "OSError"
        /\ trail' = Append(trail, "Idle")
        /\ UNCHANGED tmp
  /\ UNCHANGED <<handle, sigLog, result, pend>>
  /\ UNCHANGED <<argVars, procVars, timeVars, intVars>>
  /\ UNCHANGED <<valVars, deps, storeVars, cliVars>>

\* temp_file.write(self._prepare_script(script_content)) inside the with block,
\* before the try/finally that unlinks the file
WriteTemp ==
  /\ pc = "write"
  /\ \/ /\ tmp' = "written"
        /\ pc' = "chmod"
        /\ content' = ""
        /\ UNCHANGED <<outcome, trail>>
     \/ /\ pc' = "idle"
        /\ outcome' = "OSError"
        /\ trail' = Append(trail, "Idle")
        /\ UNCHANGED <<tmp, content>>
  /\ UNCHANGED <<script, timeoutArg, effTimeout, self_timeout, handle, sigLog, result, pend>>
  /\ UNCHANGED <<procVars, timeVars, intVars>>
  /\ UNCHANGED <<valVars, deps, storeVars, cliVars>>

\* os.chmod(temp_script_path, 0o755) inside try: a failure runs the finally
\* block (unlink) and leaves execute as OSError
Chmod ==
  /\ pc = "chmod"
  /\ \/ /\ pc' = "popen"
        /\ UNCHANGED pend
     \/ /\ pc' = "unlink"
        /\ pend' = "OSError"
  /\ UNCHANGED <<handle, tmp, sigLog, result, outcome, trail>>
  /\ UNCHANGED <<argVars, procVars, timeVars, intVars>>
  /\ UNCHANGED <<valVars, deps, storeVars, cliVars>>

(* --------------------------------------------------------- _run_script() *)

\* start_time is taken, then subprocess.Popen(..., preexec_fn=os.setsid):
\* either the child runs in a new process group or Popen raises
Popen ==
  /\ pc = "popen"
  /\ elapsed' = 0
  /\ \/ /\ \E p \in Profiles : lprof' = p
        /\ leader' = "alive"
        /\ pc' = "assign"
        /\ UNCHANGED pend
     \/ /\ \E e \in SpawnErrors : pend' = e
        /\ pc' = "except"
        /\ UNCHANGED <<leader, lprof>>
  /\ UNCHANGED <<handle, tmp, sigLog, result, outcome, trail, graceStart>>
  /\ UNCHANGED <<status, desc, dprof, exitedInTime>>
  /\ UNCHANGED <<argVars, intVars>>
  /\ UNCHANGED <<valVars, deps, storeVars, cliVars>>

\* "self.current_process = ..." once Popen has returned
AssignHandle ==
  /\ pc = "assign"
  /\ handle' = "proc"
  /\ pc' = "communicate"
  /\ trail' = Append(trail, "Running")
  /\ UNCHANGED <<tmp, sigLog, result, outcome, pend>>
  /\ UNCHANGED <<argVars, procVars, timeVars, intVars>>
  /\ UNCHANGED <<valVars, deps, storeVars, cliVars>>

\* communicate() has read both pipes to EOF and the child has exited
CommunicateDone == leader = "zombie" /\ ~PipesOpen /\ elapsed <= effTimeout

\* communicate() returns, the child reaped: the ExecutionResult of the
\* normal branch
CommunicateReturn ==
  /\ pc = "communicate"
  /\ CommunicateDone
  /\ leader' = "reaped"
  /\ \E out \in Outputs, err \in Outputs :
       result' = Some(CompletedResult(status, out, err, elapsed))
  /\ trail' = Append(trail, "Completed")
  /\ pc' = "finally"
  /\ UNCHANGED <<handle, tmp, sigLog, outcome, pend>>
  /\ UNCHANGED <<status, lprof, desc, dprof, exitedInTime>>
  /\ UNCHANGED <<argVars, timeVars, intVars>>
  /\ UNCHANGED <<valVars, deps, storeVars, cliVars>>

\* text=True: output that is not valid UTF-8 makes communicate() raise
\* UnicodeDecodeError after the child was reaped
CommunicateRaises ==
  /\ pc = "communicate"
  /\ CommunicateDone
  /\ leader' = "reaped"
  /\ pend' = DecodeError
  /\ pc' = "except"
  /\ UNCHANGED <<handle, tmp, sigLog, result, outcome, trail>>
  /\ UNCHANGED <<status, lprof, desc, dprof, exitedInTime>>
  /\ UNCHANGED <<argVars, timeVars, intVars>>
  /\ UNCHANGED <<valVars, deps, storeVars, cliVars>>

\* communicate(timeout=timeout) raises subprocess.TimeoutExpired
CommunicateTimeout ==
  /\ pc = "communicate"
  /\ elapsed >= effTimeout
  /\ pc' = "sigterm"
  /\ UNCHANGED <<handle, tmp, sigLog, result, outcome, pend, trail>>
  /\ UNCHANGED <<argVars, procVars, timeVars, intVars>>
  /\ UNCHANGED <<valVars, deps, storeVars, cliVars>>

\* os.getpgid(pid) or os.killpg(pgid, sig) can raise ProcessLookupError once
\* the child has exited: its pid, or its group, may name nothing any more
SignalCanFail == leader # "alive"

\* a handler that lets the OSError go on to "except Exception"
SignalErrorUncaught == [pc |-> "except", pend |-> "[Errno 3] No such process"]

\* "except (OSError, ProcessLookupError): pass": the rest of the inner try is
\* skipped and the timeout result is built
SignalErrorHandled == [pc |-> "timed_out", pend |-> None]

\* except subprocess.TimeoutExpired: os.killpg(os.getpgid(pid), signal.SIGTERM)
SigTerm ==
  /\ pc = "sigterm"
  /\ \/ /\ Deliver(SIGTERM)
        /\ sigLog' = Append(sigLog, SIGTERM)
        /\ graceStart' = elapsed
        /\ pc' = "grace"
        /\ UNCHANGED pend
     \/ /\ SignalCanFail
        /\ pc' = SignalErrorHandled.pc
        /\ pend' = SignalErrorHandled.pend
        /\ UNCHANGED <<sigLog, graceStart>>
        /\ UNCHANGED procVars
  /\ UNCHANGED <<handle, tmp, elapsed, result, outcome, trail>>
  /\ UNCHANGED <<argVars, intVars>>
  /\ UNCHANGED <<valVars, deps, storeVars, cliVars>>

\* self.current_process.wait(timeout=5) returns: the child has exited
GraceReturn ==
  /\ pc = "grace"
  /\ leader = "zombie"
  /\ leader' = "reaped"
  /\ pc' = "timed_out"
  /\ UNCHANGED <<handle, tmp, sigLog, result, outcome, pend, trail>>
  /\ UNCHANGED <<status, lprof, desc, dprof, exitedInTime>>
  /\ UNCHANGED <<argVars, timeVars, intVars>>
  /\ UNCHANGED <<valVars, deps, storeVars, cliVars>>

\* a grace wait that gives up as soon as it finds the child alive
GraceExpiredAtOnce == leader = "alive"

\* wait(timeout=5) raises TimeoutExpired: the child is still there after 5 s
GraceExpired == leader = "alive" /\ elapsed - graceStart >= GracePeriod

GraceTimeout ==
  /\ pc = "grace"
  /\ GraceExpired
  /\ pc' = "sigkill"
  /\ UNCHANGED <<handle, tmp, sigLog, result, outcome, pend, trail>>
  /\ UNCHANGED <<argVars, procVars, timeVars, intVars>>
  /\ UNCHANGED <<valVars, deps, storeVars, cliVars>>

\* a second stage that repeats the graceful signal
EscalationRepeatsTerm == SIGTERM

\* the signal of the second stage
EscalationSignal == SIGKILL

\* os.killpg(os.getpgid(pid), signal.SIGKILL), then wait() without a timeout
SigKill ==
  /\ pc = "sigkill"
  /\ \/ /\ Deliver(EscalationSignal)
        /\ sigLog' = Append(sigLog, EscalationSignal)
        /\ pc' = "wait_kill"
        /\ UNCHANGED pend
     \/ /\ SignalCanFail
        /\ pc' = SignalErrorHandled.pc
        /\ pend' = SignalErrorHandled.pend
        /\ UNCHANGED sigLog
        /\ UNCHANGED procVars
  /\ UNCHANGED <<handle, tmp, result, outcome, trail>>
  /\ UNCHANGED <<argVars, timeVars, intVars>>
  /\ UNCHANGED <<valVars, deps, storeVars, cliVars>>

\* self.current_process.wait() returns
WaitKill ==
  /\ pc = "wait_kill"
  /\ leader = "zombie"
  /\ leader' = "reaped"
  /\ pc' = "timed_out"
  /\ UNCHANGED <<handle, tmp, sigLog, result, outcome, pend, trail>>
  /\ UNCHANGED <<status, lprof, desc, dprof, exitedInTime>>
  /\ UNCHANGED <<argVars, timeVars, intVars>>
  /\ UNCHANGED <<valVars, deps, storeVars, cliVars>>

\* the ExecutionResult of the timeout branch
TimedOut ==
  /\ pc = "timed_out"
  /\ result' = Some(TimeoutResult(effTimeout, elapsed))
  /\ trail' = Append(trail, "TimedOut")
  /\ pc' = "finally"
  /\ UNCHANGED <<handle, tmp, sigLog, outcome, pend>>
  /\ UNCHANGED <<argVars, procVars, timeVars, intVars>>
  /\ UNCHANGED <<valVars, deps, storeVars, cliVars>>

\* a run without the except clause: the exception goes on to the caller
ExceptMissing ==
  /\ pc = "except"
  /\ pc' = "finally"
  /\ UNCHANGED <<handle, tmp, sigLog>>
  /\ UNCHANGED <<argVars, procVars, timeVars, resVars, intVars>>
  /\ UNCHANGED <<valVars, deps, storeVars, cliVars>>

\* "except Exception as e": the ExecutionResult of the error branch
Except ==
  /\ pc = "except"
  /\ result' = Some(ErrorResult(pend, elapsed))
  /\ pend' = None
  /\ trail' = Append(trail, "SpawnFailed")
  /\ pc' = "finally"
  /\ UNCHANGED <<handle, tmp, sigLog, outcome>>
  /\ UNCHANGED <<argVars, procVars, timeVars, intVars>>
  /\ UNCHANGED <<valVars, deps, storeVars, cliVars>>

\* a finally block that leaves the attribute as it is
HandleKept == handle

\* what the finally block of _run_script stores in self.current_process
HandleAfterRun == None

\* "finally: self.current_process = None"
Finally ==
  /\ pc = "finally"
  /\ handle' = HandleAfterRun
  /\ pc' = "unlink"
  /\ UNCHANGED <<tmp, sigLog>>
  /\ UNCHANGED <<argVars, procVars, timeVars, resVars, intVars>>
  /\ UNCHANGED <<valVars, deps, storeVars, cliVars>>

\* execute's finally block: os.unlink(temp_script_path), OSError swallowed;
\* then execute returns the result or lets the pending exception go on
Unlink ==
  /\ pc = "unlink"
  /\ \/ tmp' = "none"
     \/ tmp' = "unlink_failed"
  /\ pc' = "idle"
  /\ outcome' = IF pend # None THEN pend ELSE "result"
  /\ pend' = None
  /\ trail' = Append(trail, "Idle")
  /\ UNCHANGED <<handle, sigLog, result>>
  /\ UNCHANGED <<argVars, procVars, timeVars, intVars>>
  /\ UNCHANGED <<valVars, deps, storeVars, cliVars>>

(* ------------------------------------------------------------ the clock *)

\* a second passes while the run thread blocks in communicate(timeout),
\* wait(timeout=5) or wait(); a wait whose condition or deadline is met
\* returns before the next second
Tick ==
  /\ pc \in {"communicate", "grace", "wait_kill"}
  /\ elapsed < MaxClock
  /\ pc = "communicate" => elapsed < effTimeout /\ ~(leader = "zombie" /\ ~PipesOpen)
  /\ pc = "grace" => leader = "alive" /\ elapsed - graceStart < GracePeriod
  /\ pc = "wait_kill" => leader = "alive"
  /\ elapsed' = elapsed + 1
  /\ UNCHANGED <<pc, handle, tmp, graceStart, sigLog>>
  /\ UNCHANGED <<argVars, procVars, resVars, intVars>>
  /\ UNCHANGED <<valVars, deps, storeVars, cliVars>>

(* ------------------------------------------------- the script's processes *)

\* the bash process ends by itself with an exit code
LeaderExit(code) ==
  /\ leader = "alive"
  /\ leader' = "zombie"
  /\ status' = code
  /\ lprof' = NoProfile
  /\ exitedInTime' = (elapsed < effTimeout)
  /\ UNCHANGED <<desc, dprof>>
  /\ UNCHANGED <<pc, handle, tmp, sigLog>>
  /\ UNCHANGED <<argVars, timeVars, resVars, intVars>>
  /\ UNCHANGED <<valVars, deps, storeVars, cliVars>>

\* the bash process is ended by a signal the controller did not send; the
\* background job, not being its target, goes on
LeaderSignalled(sig) ==
  /\ Killed(sig)
  /\ leader' = LeaderAfter(sig)
  /\ status' = StatusAfter(sig)
  /\ lprof' = NoProfile
  /\ exitedInTime' = (elapsed < effTimeout)
  /\ UNCHANGED <<desc, dprof>>
  /\ UNCHANGED <<pc, handle, tmp, sigLog>>
  /\ UNCHANGED <<argVars, timeVars, resVars, intVars>>
  /\ UNCHANGED <<valVars, deps, storeVars, cliVars>>

\* the script starts a background job in its process group
Fork(p) ==
  /\ leader = "alive"
  /\ desc = "none"
  /\ desc' = "alive"
  /\ dprof' = p
  /\ UNCHANGED <<leader, status, lprof, exitedInTime>>
  /\ UNCHANGED <<pc, handle, tmp, sigLog>>
  /\ UNCHANGED <<argVars, timeVars, resVars, intVars>>
  /\ UNCHANGED <<valVars, deps, storeVars, cliVars>>

\* the background job ends by itself
DescExit ==
  /\ desc = "alive"
  /\ desc' = "dead"
  /\ dprof' = NoDescProfile
  /\ UNCHANGED <<leader, status, lprof, exitedInTime>>
  /\ UNCHANGED <<pc, handle, tmp, sigLog>>
  /\ UNCHANGED <<argVars, timeVars, resVars, intVars>>
  /\ UNCHANGED <<valVars, deps, storeVars, cliVars>>

(* ------------------------------------------------ interrupt_execution() *)

\* a second thread enters interrupt_execution
IntCall ==
  /\ ipc = "idle"
  /\ ipc' = "check"
  /\ iout' = "pending"
  /\ UNCHANGED <<ipid, ipgid>>
  /\ UNCHANGED <<pc, handle, tmp, sigLog>>
  /\ UNCHANGED <<argVars, procVars, timeVars, resVars>>
  /\ UNCHANGED <<valVars, deps, storeVars, cliVars>>

\* a test that takes a run for granted
RunAssumed == TRUE

\* the truth value of self.current_process: None is falsy, a Popen object truthy
RunInFlight == handle # None

\* "if self.current_process:"
IntCheck ==
  /\ ipc = "check"
  /\ IF ~RunInFlight
     THEN /\ ipc' = "idle"
          /\ iout' = "noop"
     ELSE /\ ipc' = "read_pid"
          /\ UNCHANGED iout
  /\ UNCHANGED <<ipid, ipgid>>
  /\ UNCHANGED <<pc, handle, tmp, sigLog>>
  /\ UNCHANGED <<argVars, procVars, timeVars, resVars>>
  /\ UNCHANGED <<valVars, deps, storeVars, cliVars>>

\* "self.current_process.pid": a second read of the attribute; None has no pid
\* and the AttributeError is not among the exceptions the method catches
IntReadPid ==
  /\ ipc = "read_pid"
  /\ IF handle = None
     THEN /\ ipc' = "idle"
          /\ iout' = "AttributeError"
          /\ UNCHANGED ipid
     ELSE /\ ipc' = "getpgid"
          /\ ipid' = "cur"
          /\ UNCHANGED iout
  /\ UNCHANGED ipgid
  /\ UNCHANGED <<pc, handle, tmp, sigLog>>
  /\ UNCHANGED <<argVars, procVars, timeVars, resVars>>
  /\ UNCHANGED <<valVars, deps, storeVars, cliVars>>

\* the pid still names the run's child (a zombie keeps its pid until reaped)
PidValid == ipid = "cur" /\ leader \in {"alive", "zombie"}

\* os.getpgid(pid): the run's group; or, once the child was reaped,
\* ProcessLookupError (swallowed) or the group of whatever process took the pid
IntGetpgid ==
  /\ ipc = "getpgid"
  /\ ipid' = "none"
  /\ \/ /\ PidValid
        /\ ipgid' = "run"
        /\ ipc' = "killpg"
        /\ UNCHANGED iout
     \/ /\ ~PidValid
        /\ ipc' = "idle"
        /\ iout' = "swallowed"
        /\ UNCHANGED ipgid
     \/ /\ ~PidValid
        /\ ipgid' = "foreign"
        /\ ipc' = "killpg"
        /\ UNCHANGED iout
  /\ UNCHANGED <<pc, handle, tmp, sigLog>>
  /\ UNCHANGED <<argVars, procVars, timeVars, resVars>>
  /\ UNCHANGED <<valVars, deps, storeVars, cliVars>>

\* an interrupt that asks for termination
InterruptWithTerm == SIGTERM

\* the signal interrupt_execution sends
InterruptSignal == SIGINT

\* os.killpg(pgid, signal.SIGINT)
IntKillpg ==
  /\ ipc = "killpg"
  /\ ipc' = "idle"
  /\ ipgid' = "none"
  /\ \/ /\ ipgid = "run"
        /\ GroupExists
        /\ Deliver(InterruptSignal)
        /\ iout' = "sent"
     \/ /\ ipgid = "run"
        /\ ~GroupExists
        /\ iout' = "swallowed"
        /\ UNCHANGED procVars
     \/ /\ ipgid = "old"
        /\ iout' = "sent_old"
        /\ UNCHANGED procVars
     \/ /\ ipgid = "foreign"
        /\ iout' = "sent_foreign"
        /\ UNCHANGED procVars
  /\ UNCHANGED ipid
  /\ UNCHANGED <<pc, handle, tmp, sigLog>>
  /\ UNCHANGED <<argVars, timeVars, resVars>>
  /\ UNCHANGED <<valVars, deps, storeVars, cliVars>>

(* ------------------------------------------------------- specifications *)

ExecStep ==
  \/ Validate \/ MkTemp \/ WriteTemp \/ Chmod \/ Popen \/ AssignHandle
  \/ CommunicateReturn \/ CommunicateRaises \/ CommunicateTimeout
  \/ SigTerm \/ GraceReturn \/ GraceTimeout \/ SigKill \/ WaitKill
  \/ TimedOut \/ Except \/ Finally \/ Unlink

Next ==
  \/ \E c \in Contents, t \in TimeoutArgs : Call(c, t)
  \/ Discard
  \/ ExecStep
  \/ Tick
  \/ \E code \in ExitCodes : LeaderExit(code)
  \/ \E sig \in OwnSignals : LeaderSignalled(sig)
  \/ \E p \in DescProfiles : Fork(p)
  \/ DescExit
  \/ IntCall \/ IntCheck \/ IntReadPid \/ IntGetpgid \/ IntKillpg

Spec == Init /\ [][Next]_vars

\* the run thread is scheduled and time passes; the script itself owes nothing
FairSpec == Spec /\ WF_vars(ExecStep) /\ WF_vars(Tick)

(* ----------------------------------------------------- _prepare_script() *)

PrepChars == {"#", "!", "/", " ", "\n", "x"}

\* execute hands _prepare_script only content that passed the emptiness check
PrepContents == {c \in StringsOver(PrepChars, MaxPrepLen) : ~IsBlank(c)}

PrepInit ==
  /\ ValIdle
  /\ StoreIdle
  /\ CliIdle
  /\ deps = <<>>
  /\ pc = "prepare"
  /\ content \in PrepContents
  /\ script = ""
  /\ timeoutArg = NoValue
  /\ effTimeout = 0
  /\ self_timeout = DefaultTimeout
  /\ handle = None
  /\ tmp = "none"
  /\ leader = "none"
  /\ status = 0
  /\ lprof = NoProfile
  /\ desc = "none"
  /\ dprof = NoDescProfile
  /\ elapsed = 0
  /\ graceStart = 0
  /\ exitedInTime = FALSE
  /\ sigLog = <<>>
  /\ result = NoValue
  /\ outcome = "none"
  /\ pend = None
  /\ trail = <<>>
  /\ ipc = "idle"
  /\ ipid = "none"
  /\ ipgid = "none"
  /\ iout = "none"

\* one call of _prepare_script on the content
Prepare ==
  /\ pc = "prepare"
  /\ script' = PrepareScript(content)
  /\ pc' = "prepared"
  /\ UNCHANGED <<content, timeoutArg, effTimeout, self_timeout, handle, tmp, sigLog>>
  /\ UNCHANGED <<procVars, timeVars, resVars, intVars>>
  /\ UNCHANGED <<valVars, deps, storeVars, cliVars>>

PrepNext == Prepare

PrepSpec == PrepInit /\ [][PrepNext]_vars

(* ----------------------------------------------- validate_script_syntax() *)

\* what "bash -n" writes to stderr when it exits with a non-zero status
SyntaxDiagnostics == {"", "\n", "line 1: syntax error: unexpected end of file\n"}

ValReturn(valid, message) == [kind |-> "computed", valid |-> valid, message |-> message]
ValRaise(e) == [kind |-> "raised", valid |-> FALSE, message |-> e]

\* exit statuses of "bash -n": 0 parsed, 2 syntax error, 127 file not readable
ValExitCodes == {0, 2, 127}

\* a message taken from stderr as it is
DiagnosticRaw(stderr) == stderr

\* "result.stderr.strip() or 'Syntax error detected'"
DiagnosticOrDefault(stderr) ==
  IF Strip(stderr) = "" THEN "Syntax error detected" ELSE Strip(stderr)

\* everything the execute thread, the processes and interrupt_execution own
notValVars ==
  <<pc, handle, tmp, sigLog, deps, argVars, procVars, timeVars, resVars, intVars,
    storeVars, cliVars>>

\* a caller enters validate_script_syntax(script_content)
ValCall(c) ==
  /\ vpc = "idle"
  /\ vpc' = "check"
  /\ vcontent' = c
  /\ vtmp' = "none"
  /\ vfile' = ""
  /\ vrun' = NoVRun
  /\ vout' = [kind |-> "pending", valid |-> FALSE, message |-> ""]
  /\ UNCHANGED notValVars

\* "if not script_content.strip(): return False, ..."
ValCheck ==
  /\ vpc = "check"
  /\ IF IsBlank(vcontent)
     THEN /\ vpc' = "idle"
          /\ vout' = [ValReturn(FALSE, "Script content is empty") EXCEPT !.kind = "returned"]
     ELSE /\ vpc' = "mktemp"
          /\ UNCHANGED vout
  /\ UNCHANGED <<vcontent, vtmp, vfile, vrun>>
  /\ UNCHANGED notValVars

\* tempfile.NamedTemporaryFile(delete=False): an OSError leaves the method
ValMkTemp ==
  /\ vpc = "mktemp"
  /\ \/ /\ vtmp' = "created"
        /\ vpc' = "write"
        /\ UNCHANGED vout
     \/ /\ vpc' = "idle"
        /\ vout' = ValRaise("OSError")
        /\ UNCHANGED vtmp
  /\ UNCHANGED <<vcontent, vfile, vrun>>
  /\ UNCHANGED notValVars

\* temp_file.write(script_content) in the with block, before the try: an
\* error of the write (or of the close) leaves the method with the file on disk
ValWrite ==
  /\ vpc = "write"
  /\ \/ /\ vtmp' = "written"
        /\ vfile' = vcontent
        /\ vpc' = "run"
        /\ UNCHANGED vout
     \/ /\ vpc' = "idle"
        /\ \E e \in {"OSError", "UnicodeEncodeError"} : vout' = ValRaise(e)
        /\ UNCHANGED <<vtmp, vfile>>
  /\ UNCHANGED <<vcontent, vrun>>
  /\ UNCHANGED notValVars

\* subprocess.run(['/bin/bash', '-n', path], timeout=10) and the return
\* statement its outcome selects; the value is returned after the finally block
ValRun ==
  /\ vpc = "run"
  /\ \/ \E rc \in ValExitCodes, d \in SyntaxDiagnostics :
          /\ vrun' = [kind |-> "exit", rc |-> rc, stderr |-> d]
          /\ vout' = IF rc = 0 THEN ValReturn(TRUE, "Syntax is valid")
                     ELSE ValReturn(FALSE, DiagnosticOrDefault(d))
     \/ /\ vrun' = [kind |-> "timeout", rc |-> 0, stderr |-> ""]
        /\ vout' = ValReturn(FALSE, "Syntax check timed out")
     \/ \E e \in SpawnErrors :
          /\ vrun' = [kind |-> "error", rc |-> 0, stderr |-> e]
          /\ vout' = ValReturn(FALSE, "Syntax check failed: " \o e)
  /\ vpc' = "unlink"
  /\ UNCHANGED <<vcontent, vtmp, vfile>>
  /\ UNCHANGED notValVars

\* "finally: os.unlink(temp_script_path)", OSError swallowed; then the return
ValUnlink ==
  /\ vpc = "unlink"
  /\ \/ vtmp' = "none" /\ vfile' = ""
     \/ vtmp' = "unlink_failed" /\ UNCHANGED vfile
  /\ vpc' = "idle"
  /\ vout' = [vout EXCEPT !.kind = "returned"]
  /\ UNCHANGED <<vcontent, vrun>>
  /\ UNCHANGED notValVars

\* the controller idle, or with a run in flight whose thread is blocked in
\* communicate and whose handle is set
ValInit ==
  /\ ValIdle
  /\ StoreIdle
  /\ CliIdle
  /\ deps = <<>>
  /\ content = "" /\ script = "" /\ timeoutArg = NoValue
  /\ self_timeout = DefaultTimeout
  /\ status = 0 /\ lprof = NoProfile
  /\ desc = "none" /\ dprof = NoDescProfile
  /\ elapsed = 0 /\ graceStart = 0 /\ exitedInTime = FALSE
  /\ sigLog = <<>> /\ result = NoValue /\ outcome = "none" /\ pend = None
  /\ ipc = "idle" /\ ipid = "none" /\ ipgid = "none" /\ iout = "none"
  /\ \/ /\ pc = "idle" /\ handle = None /\ tmp = "none" /\ leader = "none"
        /\ effTimeout = 0 /\ trail = <<>>
     \/ /\ pc = "communicate" /\ handle = "proc" /\ tmp = "written" /\ leader = "alive"
        /\ effTimeout = DefaultTimeout /\ trail = <<"Idle", "Preparing", "Running">>

ValNext ==
  \/ \E c \in Contents : ValCall(c)
  \/ ValCheck \/ ValMkTemp \/ ValWrite \/ ValRun \/ ValUnlink

ValSpec == ValInit /\ [][ValNext]_vars

(* ---------------------------------------------- get_script_dependencies() *)

\* the backquote cannot be written inside a TLA+ string: "@", which no script
\* of this model contains otherwise, stands for it
Backquote == "@"

\* the printable ASCII characters in code point order: 32 to 63, 65 to 95 and
\* 97 to 126
AsciiLow == " !\"#$%&'()*+,-./0123456789:;<=>?"
AsciiMid == "ABCDEFGHIJKLMNOPQRSTUVWXYZ[\\]^_"
AsciiHigh == "abcdefghijklmnopqrstuvwxyz{|}~"

RECURSIVE IndexIn(_, _, _)
IndexIn(c, s, i) ==
  IF i > Len(s) THEN 0 ELSE IF CharAt(s, i) = c THEN i ELSE IndexIn(c, s, i + 1)

\* ord(c) for the characters a script is made of here
CodePoint(c) ==
  CASE c = "\n" -> 10
    [] c = Backquote -> 96
    [] IndexIn(c, AsciiLow, 1) > 0 -> 31 + IndexIn(c, AsciiLow, 1)
    [] IndexIn(c, AsciiMid, 1) > 0 -> 64 + IndexIn(c, AsciiMid, 1)
    [] OTHER -> 96 + IndexIn(c, AsciiHigh, 1)

\* Python compares str values code point by code point, a proper prefix first
RECURSIVE StrLess(_, _)
StrLess(a, b) ==
  IF Len(b) = 0 THEN FALSE
  ELSE IF Len(a) = 0 THEN TRUE
  ELSE IF CharAt(a, 1) = CharAt(b, 1) THEN StrLess(Tail(a), Tail(b))
  ELSE CodePoint(CharAt(a, 1)) < CodePoint(CharAt(b, 1))

\* \w of the re module, on ASCII: letters, digits and the underscore
IsWordChar(c) ==
  LET n == CodePoint(c)
  IN (48 <= n /\ n <= 57) \/ (65 <= n /\ n <= 90) \/ (97 <= n /\ n <= 122) \/ n = 95

\* the class [\w-]
IsNameChar(c) == IsWordChar(c) \/ c = "-"

\* \s
IsSpaceChar(c) == c \in Whitespace

WordAt(s, i) == 1 <= i /\ i <= Len(s) /\ IsWordChar(CharAt(s, i))

\* \b matches before position i
BoundaryAt(s, i) == WordAt(s, i - 1) # WordAt(s, i)

\* last position of the longest run of name characters that starts at i,
\* i - 1 when there is none
RECURSIVE NameRunEnd(_, _)
NameRunEnd(s, i) ==
  IF i <= Len(s) /\ IsNameChar(CharAt(s, i)) THEN NameRunEnd(s, i + 1) ELSE i - 1

RECURSIVE SpaceRunEnd(_, _)
SpaceRunEnd(s, i) ==
  IF i <= Len(s) /\ IsSpaceChar(CharAt(s, i)) THEN SpaceRunEnd(s, i + 1) ELSE i - 1

LiteralAt(s, i, lit) ==
  i + Len(lit) - 1 <= Len(s) /\ SubSeq(s, i, i + Len(lit) - 1) = lit

\* re.findall(r'\b([\w-]+)\s+', s) from position i on, as a set
RECURSIVE FindSimpleCalls(_, _)
FindSimpleCalls(s, i) ==
  IF i > Len(s) THEN {}
  ELSE LET e == NameRunEnd(s, i)
           w == SpaceRunEnd(s, e + 1)
       IN IF BoundaryAt(s, i) /\ e >= i /\ w > e
          THEN {SubSeq(s, i, e)} \cup FindSimpleCalls(s, w + 1)
          ELSE FindSimpleCalls(s, i + 1)

\* re.findall of a pattern "<lit>([\w-]+)": the patterns for "$(" and for
\* the backquote
RECURSIVE FindAfterLiteral(_, _, _)
FindAfterLiteral(s, i, lit) ==
  IF i > Len(s) THEN {}
  ELSE LET b == i + Len(lit)
           e == NameRunEnd(s, b)
       IN IF LiteralAt(s, i, lit) /\ e >= b
          THEN {SubSeq(s, b, e)} \cup FindAfterLiteral(s, e + 1, lit)
          ELSE FindAfterLiteral(s, i + 1, lit)

\* re.findall(r'which\s+([\w-]+)', s)
RECURSIVE FindWhich(_, _)
FindWhich(s, i) ==
  IF i > Len(s) THEN {}
  ELSE LET w == SpaceRunEnd(s, i + 5)
           e == NameRunEnd(s, w + 1)
       IN IF LiteralAt(s, i, "which") /\ w >= i + 5 /\ e > w
          THEN {SubSeq(s, w + 1, e)} \cup FindWhich(s, e + 1)
          ELSE FindWhich(s, i + 1)

\* re.findall(r'command\s+-v\s+([\w-]+)', s)
RECURSIVE FindCommandV(_, _)
FindCommandV(s, i) ==
  IF i > Len(s) THEN {}
  ELSE LET w1 == SpaceRunEnd(s, i + 7)
           w2 == SpaceRunEnd(s, w1 + 3)
           e == NameRunEnd(s, w2 + 1)
       IN IF /\ LiteralAt(s, i, "command") /\ w1 >= i + 7
             /\ LiteralAt(s, w1 + 1, "-v") /\ w2 >= w1 + 3 /\ e > w2
          THEN {SubSeq(s, w2 + 1, e)} \cup FindCommandV(s, e + 1)
          ELSE FindCommandV(s, i + 1)

\* a filter that lets "if" through
FilteredWithoutIf ==
  {"then", "else", "fi", "for", "while", "do", "done",
   "case", "esac", "function", "return", "exit", "echo", "printf"}

\* the words the loop does not add to the set
FilteredWords ==
  {"if", "then", "else", "fi", "for", "while", "do", "done",
   "case", "esac", "function", "return", "exit", "echo", "printf"}

AllMatches(s) ==
  FindSimpleCalls(s, 1) \cup FindWhich(s, 1) \cup FindCommandV(s, 1)
    \cup FindAfterLiteral(s, 1, "$(") \cup FindAfterLiteral(s, 1, Backquote)

\* sorted(list(S))
RECURSIVE SortedList(_)
SortedList(S) ==
  IF S = {} THEN <<>>
  ELSE LET m == CHOOSE x \in S : \A y \in S \ {x} : StrLess(x, y)
       IN <<m>> \o SortedList(S \ {m})

GetScriptDependencies(s) == SortedList(AllMatches(s) \ FilteredWords)

DepChars == {"i", "f", " ", "-", "$", "(", Backquote}

\* longer scripts that use every pattern
DepSamples ==
  {"if ls; then which cat; fi\n",
   "echo $(date) @ls -l@ | grep-x x \n",
   "command -v  if || which echo \ncommand -v jq "}

DepContents == StringsOver(DepChars, MaxDepLen) \cup DepSamples

DepInit ==
  /\ ValIdle
  /\ StoreIdle
  /\ CliIdle
  /\ pc = "deps"
  /\ content \in DepContents
  /\ deps = <<>>
  /\ script = ""
  /\ timeoutArg = NoValue
  /\ effTimeout = 0
  /\ self_timeout = DefaultTimeout
  /\ handle = None
  /\ tmp = "none"
  /\ leader = "none"
  /\ status = 0
  /\ lprof = NoProfile
  /\ desc = "none"
  /\ dprof = NoDescProfile
  /\ elapsed = 0
  /\ graceStart = 0
  /\ exitedInTime = FALSE
  /\ sigLog = <<>>
  /\ result = NoValue
  /\ outcome = "none"
  /\ pend = None
  /\ trail = <<>>
  /\ ipc = "idle"
  /\ ipid = "none"
  /\ ipgid = "none"
  /\ iout = "none"

\* one call of get_script_dependencies on the content
GetDeps ==
  /\ pc = "deps"
  /\ deps' = GetScriptDependencies(content)
  /\ pc' = "deps_done"
  /\ UNCHANGED <<handle, tmp, sigLog>>
  /\ UNCHANGED <<argVars, procVars, timeVars, resVars, intVars, valVars, storeVars,
                 cliVars>>

DepNext == GetDeps

DepSpec == DepInit /\ [][DepNext]_vars

(* ---------------------------------------------------- ScriptManager *)
(* src/script_manager.py.  One ScriptManager on one directory, used by one  *)
(* thread: every call runs to its end before the next one starts.  The     *)
(* disk does not fail (no OSError).  Of a metadata entry the 'filename'    *)
(* and the 'size' are followed; the timestamps 'created', 'modified' and   *)
(* 'accessed' are left out, so the 'accessed' update of load_script        *)
(* changes nothing that is followed here.                                  *)

\* names a caller may pass: empty, blank, nothing but a separator, plain,
\* with the extension, with a separator, beginning with a dot, and one that
\* sorts before the others
StoreNames == {"", " ", "/", "a", "a.sh", "a/", ".a", "B"}

\* contents a caller may save; the second holds a carriage return
StoreContents == {"x", "p\r\nq"}

\* str.isalnum for one character
IsAlnum(c) == IsWordChar(c) /\ c # "_"

\* the characters the filter of _get_script_path keeps: c.isalnum() or c in "._-"
KeepsCharOrSeparator(c) == IsAlnum(c) \/ c \in {".", "_", "-", "/"}
KeepsChar(c) == IsAlnum(c) \/ c \in {".", "_", "-"}

\* "".join(c for c in name if c.isalnum() or c in "._-")
RECURSIVE SafeName(_)
SafeName(name) ==
  IF name = "" THEN ""
  ELSE LET c == CharAt(name, 1)
       IN (IF KeepsChar(c) THEN c ELSE "") \o SafeName(Tail(name))

EndsWith(s, suffix) ==
  Len(s) >= Len(suffix) /\ SubSeq(s, Len(s) - Len(suffix) + 1, Len(s)) = suffix

\* _get_script_path: no value where it raises ValueError, else the name of
\* the file inside script_dir
GetScriptPath(name) ==
  LET safe_name == SafeName(name)
  IN IF safe_name = "" THEN NoValue
     ELSE IF EndsWith(safe_name, ".sh") THEN Some(safe_name)
     ELSE Some(safe_name \o ".sh")

\* names made of a letter, the dot and the path separator, and names with
\* ".." segments, an absolute path, the extension
PathChars == {"a", ".", "/"}
PathSamples == {"../a", "../../a.sh", "/tmp/a.sh", "a/../b"}
PathNames == StringsOver(PathChars, MaxNameLen) \cup PathSamples

\* _get_script_path of every name a caller may pass, worked out once
ScriptPaths == [name \in StoreNames \cup PathNames |-> GetScriptPath(name)]

\* len(content.encode('utf-8')): the contents here are ASCII, a byte a character
Utf8Len(c) == Len(c)

\* f.read() of a file opened in text mode: "\r\n" and "\r" come back as "\n"
RECURSIVE ReadText(_)
ReadText(bytes) ==
  IF bytes = "" THEN ""
  ELSE IF StartsWith(bytes, "\r\n") THEN "\n" \o ReadText(SubSeq(bytes, 3, Len(bytes)))
  ELSE IF StartsWith(bytes, "\r") THEN "\n" \o ReadText(Tail(bytes))
  ELSE CharAt(bytes, 1) \o ReadText(Tail(bytes))

\* lines a user may type into an editing session
CliLines == {"x", ""}

\* all lists of at most n typed lines
LineLists(n) == UNION {[1..k -> CliLines] : k \in 0..n}

\* '\n'.join(lines)
RECURSIVE Join(_)
Join(lines) ==
  IF lines = <<>> THEN ""
  ELSE IF Len(lines) = 1 THEN lines[1]
  ELSE lines[1] \o "\n" \o Join(Tail(lines))

\* content.split('\n')
RECURSIVE SplitLines(_)
SplitLines(text) ==
  LET i == FirstNewline(text, 1)
  IN IF i = 0 THEN <<text>>
     ELSE <<SubSeq(text, 1, i - 1)>> \o SplitLines(SubSeq(text, i + 1, Len(text)))

\* contents the CLI may save: the typed lines joined
CliContents == {Join(lines) : lines \in LineLists(MaxLines)}

\* what f.read() gives for every content a caller may save, worked out once
TextRead == [bytes \in StoreContents \cup CliContents |-> ReadText(bytes)]

\* d[k] = v on a dict, a file created or rewritten in a directory
Put(d, k, v) == [x \in DOMAIN d \cup {k} |-> IF x = k THEN v ELSE d[x]]

\* del d[k], a file unlinked
Drop(d, k) == [x \in DOMAIN d \ {k} |-> d[x]]

\* the directory and the ScriptManager as one value; the methods below take
\* it as they find it and give it back as they leave it
Store ==
  [files |-> files, metadata |-> metadata, metadata_file |-> metadata_file,
   saved |-> saved, sop |-> sop]

SetStore(st) ==
  /\ files' = st.files
  /\ metadata' = st.metadata
  /\ metadata_file' = st.metadata_file
  /\ saved' = st.saved
  /\ sop' = st.sop

\* script_path.exists()
Exists(st, path) == ValueOf(path) \in DOMAIN st.files

\* what load_script and delete_script raise when the file does not exist
NotFoundAsValueError == "ValueError"
NotFound == "FileNotFoundError"

StoreRaise(op, name, exc) ==
  [op |-> op, name |-> name, raised |-> exc, text |-> "", flag |-> FALSE,
   listing |-> <<>>]

StoreReturn(op, name, text, flag, listing) ==
  [op |-> op, name |-> name, raised |-> "", text |-> text, flag |-> flag,
   listing |-> listing]

\* self.metadata changed and _save_metadata() called
WithMetadata(st, md) == [st EXCEPT !.metadata = md, !.metadata_file = Some(md)]

\* save_script(name, content)
SaveScript(st, name, c) ==
  LET script_path == ScriptPaths[name]
  IN IF name = "" \/ IsBlank(name) \/ script_path = NoValue
     THEN [st EXCEPT !.sop = StoreRaise("save_script", name, "ValueError")]
     ELSE [WithMetadata(st, Put(st.metadata, name,
                                [filename |-> ValueOf(script_path),
                                 size |-> Utf8Len(c)]))
             EXCEPT !.files = Put(st.files, ValueOf(script_path), c),
                    !.saved = Put(st.saved, name, Some(c)),
                    !.sop = StoreReturn("save_script", name, "", FALSE, <<>>)]

\* load_script(name)
LoadScript(st, name) ==
  LET script_path == ScriptPaths[name]
  IN IF script_path = NoValue
     THEN [st EXCEPT !.sop = StoreRaise("load_script", name, "ValueError")]
     ELSE IF ~Exists(st, script_path)
     THEN [st EXCEPT !.sop = StoreRaise("load_script", name, NotFound)]
     ELSE [(IF name \in DOMAIN st.metadata
            THEN WithMetadata(st, st.metadata)
            ELSE st)
             EXCEPT !.sop = StoreReturn("load_script", name,
                                        TextRead[st.files[ValueOf(script_path)]],
                                        FALSE, <<>>)]

\* delete_script(name)
DeleteScript(st, name) ==
  LET script_path == ScriptPaths[name]
  IN IF script_path = NoValue
     THEN [st EXCEPT !.sop = StoreRaise("delete_script", name, "ValueError")]
     ELSE IF ~Exists(st, script_path)
     THEN [st EXCEPT !.sop = StoreRaise("delete_script", name, NotFound)]
     ELSE [(IF name \in DOMAIN st.metadata
            THEN WithMetadata(st, Drop(st.metadata, name))
            ELSE st)
             EXCEPT !.files = Drop(st.files, ValueOf(script_path)),
                    !.saved = Put(st.saved, name, NoValue),
                    !.sop = StoreReturn("delete_script", name, "", FALSE, <<>>)]

\* the files list_scripts keeps: glob("*.sh") without those beginning with a dot
ListedWithHidden(st) == {f \in DOMAIN st.files : EndsWith(f, ".sh")}
Listed(st) == {f \in DOMAIN st.files : EndsWith(f, ".sh") /\ ~StartsWith(f, ".")}

\* the 'name' of the entry list_scripts makes for a file: the name without ".sh"
EntryName(f) == SubSeq(f, 1, Len(f) - 3)

\* the entries of list_scripts in the order sorted(..., key=name) gives; of
\* an entry the name and the path are kept
ListEntries(st) ==
  LET names == SortedList({EntryName(f) : f \in Listed(st)})
  IN [i \in 1..Len(names) |-> [name |-> names[i], path |-> names[i] \o ".sh"]]

\* list_scripts()
ListScripts(st) ==
  [st EXCEPT !.sop = StoreReturn("list_scripts", "", "", FALSE, ListEntries(st))]

\* script_exists(name)
ScriptExists(st, name) ==
  LET script_path == ScriptPaths[name]
  IN [st EXCEPT !.sop =
        IF script_path = NoValue
        THEN StoreRaise("script_exists", name, "ValueError")
        ELSE StoreReturn("script_exists", name, "", Exists(st, script_path), <<>>)]

\* everything outside the ScriptManager
notStoreVars ==
  <<pc, handle, tmp, sigLog, deps, argVars, procVars, timeVars, resVars, intVars,
    valVars, cliVars>>

StoreSave == \E name \in StoreNames, c \in StoreContents :
  SetStore(SaveScript(Store, name, c)) /\ UNCHANGED notStoreVars

StoreLoad == \E name \in StoreNames :
  SetStore(LoadScript(Store, name)) /\ UNCHANGED notStoreVars

StoreDelete == \E name \in StoreNames :
  SetStore(DeleteScript(Store, name)) /\ UNCHANGED notStoreVars

StoreList == SetStore(ListScripts(Store)) /\ UNCHANGED notStoreVars

StoreExists == \E name \in StoreNames :
  SetStore(ScriptExists(Store, name)) /\ UNCHANGED notStoreVars

StoreNext == StoreSave \/ StoreLoad \/ StoreDelete \/ StoreList \/ StoreExists

StoreSpec == Init /\ [][StoreNext]_vars

\* one ScriptManager on a fresh directory that is called with one name only,
\* the name being any of PathNames
OneName(name) == sop.op = "none" \/ sop.name = name

PathSave == \E name \in PathNames, c \in StoreContents :
  OneName(name) /\ SetStore(SaveScript(Store, name, c)) /\ UNCHANGED notStoreVars

PathLoad == \E name \in PathNames :
  OneName(name) /\ SetStore(LoadScript(Store, name)) /\ UNCHANGED notStoreVars

PathDelete == \E name \in PathNames :
  OneName(name) /\ SetStore(DeleteScript(Store, name)) /\ UNCHANGED notStoreVars

PathExists == \E name \in PathNames :
  OneName(name) /\ SetStore(ScriptExists(Store, name)) /\ UNCHANGED notStoreVars

PathNext == PathSave \/ PathLoad \/ PathDelete \/ PathExists

PathSpec == Init /\ [][PathNext]_vars

(* ------------------------------------------------------- BashScriptCLI *)
(* src/cli.py.  One user at one terminal.  A command is handled in one     *)
(* step, the answers the user gives to its prompts being inputs of the     *)
(* step; an editing session takes one step for every line typed.  The run  *)
(* of BashExecutor.execute itself is the subject of the sections above:    *)
(* here the call is recorded with the content it was given.                *)

\* script names a user may type: two that are stored apart, one that
\* _get_script_path rejects
CliNames == {"a", "B", "/"}

\* what a user may do at a confirm(...) prompt: y, n, or Ctrl-C
Answers == {"yes", "no", "interrupt"}

\* Ctrl-C at a prompt that asks for a name
CtrlC == "^C"

\* what a user may type at the prompt of an editing session
EditInputs == CliLines \cup {":done", ":done ", ":cancel", ":show", ":clear"}

\* everything outside the CLI and its ScriptManager
notCliVars ==
  <<pc, handle, tmp, sigLog, deps, argVars, procVars, timeVars, resVars, intVars,
    valVars>>

Command(cmd, asked, shown, answer, executed) ==
  [cmd |-> cmd, asked |-> asked, shown |-> shown, answer |-> answer,
   executed |-> executed]

\* the directory and the metadata as a handler's ScriptManager calls leave
\* them; what the CLI saw of a call is in cout, so the record of the last
\* direct call (sop) and the history of direct calls (saved) stay as they are
SetDisk(st) ==
  /\ files' = st.files
  /\ metadata' = st.metadata
  /\ metadata_file' = st.metadata_file
  /\ UNCHANGED <<saved, sop>>

\* the handler returned to the prompt of run() with the current script as it was
Stay(cmd, asked, answer, st) ==
  /\ cout' = Command(cmd, asked, "", answer, NoValue)
  /\ SetDisk(st)
  /\ UNCHANGED <<cpc, current_script_name, script_lines, temp_lines, edit_from>>

\* KeyboardInterrupt left the handler and reached run(): "Do you want to
\* exit?" ends the loop on yes (and on a second Ctrl-C), goes on otherwise
Interrupted(cmd, asked, st) ==
  /\ cout' = Command(cmd, asked, "", "interrupt", NoValue)
  /\ cpc' \in {"main", "exited"}
  /\ SetDisk(st)
  /\ UNCHANGED <<current_script_name, script_lines, temp_lines, edit_from>>

\* _edit_current_script starts its loop on a copy of the current lines
EnterSession(lines) ==
  /\ cpc' = "edit"
  /\ temp_lines' = lines
  /\ edit_from' = lines

\* what _check_unsaved_changes finds when the lines differ from the saved copy
AskNever == "clean"
AskWhenUnsaved == "ask"

\* _check_unsaved_changes once load_script has answered: the saved copy is
\* compared with the lines, a script that was never saved counts as changed
UnsavedAfterLoad(loaded) ==
  IF loaded.sop.raised = ""
  THEN [kind |-> IF loaded.sop.text = Join(script_lines) THEN "clean"
                 ELSE AskWhenUnsaved,
        st |-> loaded]
  ELSE IF loaded.sop.raised = "FileNotFoundError"
  THEN [kind |-> AskWhenUnsaved, st |-> loaded]
  ELSE [kind |-> "error", st |-> loaded]

\* _check_unsaved_changes up to its confirm: clean (returns False), ask (the
\* prompt is due) or error (load_script raised something else), with the
\* store as load_script left it
UnsavedCheck(st) ==
  IF script_lines = <<>> THEN [kind |-> "clean", st |-> st]
  ELSE IF current_script_name # NoValue
  THEN UnsavedAfterLoad(LoadScript(st, ValueOf(current_script_name)))
  ELSE [kind |-> AskWhenUnsaved, st |-> st]

\* a command that starts with "if self._check_unsaved_changes(): return"
\* returns there: the user answered no or pressed Ctrl-C, or load_script
\* raised
Blocked(cmd) ==
  \E check \in {UnsavedCheck(Store)} :
    \/ /\ check.kind = "error"
       /\ Stay(cmd, "none", "none", check.st)
    \/ /\ check.kind = "ask"
       /\ \/ Stay(cmd, "unsaved", "no", check.st)
          \/ Interrupted(cmd, "unsaved", check.st)

\* the ways such a command gets past the check: nothing to ask, or a yes
Passes ==
  {[st |-> check.st,
    asked |-> IF check.kind = "clean" THEN "none" ELSE "unsaved",
    answer |-> IF check.kind = "clean" THEN "none" ELSE "yes"] :
     check \in {c \in {UnsavedCheck(Store)} : c.kind # "error"}}

\* exit, quit: sys.exit(0)
CmdExit ==
  /\ cpc = "main"
  /\ \/ Blocked("exit")
     \/ \E p \in Passes :
          /\ cpc' = "exited"
          /\ cout' = Command("exit", p.asked, "", p.answer, NoValue)
          /\ SetDisk(p.st)
          /\ UNCHANGED <<current_script_name, script_lines, temp_lines, edit_from>>
  /\ UNCHANGED notCliVars

\* _new_script(name) once the check has let it pass
NewNamed(name, p) ==
  /\ current_script_name' = Some(name)
  /\ script_lines' = <<>>
  /\ EnterSession(<<>>)
  /\ cout' = Command("new", p.asked, "", p.answer, NoValue)
  /\ SetDisk(p.st)

\* new <name>
CmdNew(name) ==
  /\ cpc = "main"
  /\ \/ Blocked("new")
     \/ \E p \in Passes : NewNamed(name, p)
  /\ UNCHANGED notCliVars

\* new without a name: "Enter script name: "
CmdNewPrompt ==
  /\ cpc = "main"
  /\ \/ Blocked("new")
     \/ \E p \in Passes, typed \in CliNames \cup {"", CtrlC} :
          IF typed = CtrlC THEN Interrupted("new", p.asked, p.st)
          ELSE IF typed = "" THEN Stay("new", p.asked, p.answer, p.st)
          ELSE NewNamed(typed, p)
  /\ UNCHANGED notCliVars

\* edit <name>: _edit_script
CmdEditName(name) ==
  /\ cpc = "main"
  /\ \/ Blocked("edit")
     \/ \E p \in Passes :
          LET loaded == LoadScript(p.st, name)
          IN IF loaded.sop.raised = ""
             THEN /\ current_script_name' = Some(name)
                  /\ script_lines' = SplitLines(loaded.sop.text)
                  /\ EnterSession(script_lines')
                  /\ cout' = Command("edit", p.asked, "", p.answer, NoValue)
                  /\ SetDisk(loaded)
             ELSE Stay("edit", p.asked, p.answer, loaded)
  /\ UNCHANGED notCliVars

\* edit without a name: _edit_current_script on the current script
CmdEdit ==
  /\ cpc = "main"
  /\ cout' = Command("edit_current", "none", "", "none", NoValue)
  /\ IF current_script_name = NoValue
     THEN UNCHANGED <<cpc, temp_lines, edit_from>>
     ELSE EnterSession(script_lines)
  /\ UNCHANGED <<current_script_name, script_lines, storeVars>>
  /\ UNCHANGED notCliVars

\* load <name>: _load_script
CmdLoad(name) ==
  /\ cpc = "main"
  /\ \/ Blocked("load")
     \/ \E p \in Passes :
          LET loaded == LoadScript(p.st, name)
          IN IF loaded.sop.raised = ""
             THEN /\ current_script_name' = Some(name)
                  /\ script_lines' = SplitLines(loaded.sop.text)
                  /\ cout' = Command("load", p.asked, "", p.answer, NoValue)
                  /\ SetDisk(loaded)
                  /\ UNCHANGED <<cpc, temp_lines, edit_from>>
             ELSE Stay("load", p.asked, p.answer, loaded)
  /\ UNCHANGED notCliVars

\* _save_script once the name is settled: save_script, its errors reported
SaveAs(name) ==
  /\ current_script_name' = Some(name)
  /\ SetDisk(SaveScript(Store, name, Join(script_lines)))
  /\ cout' = Command("save", "none", "", "none", NoValue)
  /\ UNCHANGED <<cpc, script_lines, temp_lines, edit_from>>

\* save <name>, and save without a name
CmdSave(arg) ==
  /\ cpc = "main"
  /\ IF script_lines = <<>> THEN Stay("save", "none", "none", Store)
     ELSE IF arg # NoValue THEN SaveAs(ValueOf(arg))
     ELSE IF current_script_name # NoValue THEN SaveAs(ValueOf(current_script_name))
     ELSE \E typed \in CliNames \cup {"", CtrlC} :
            IF typed = CtrlC THEN Interrupted("save", "none", Store)
            ELSE IF typed = "" THEN Stay("save", "none", "none", Store)
            ELSE SaveAs(typed)
  /\ UNCHANGED notCliVars

\* delete <name>: _delete_script
CmdDelete(name) ==
  LET found == ScriptExists(Store, name)
  IN /\ cpc = "main"
     /\ IF found.sop.raised # "" \/ ~found.sop.flag
        THEN Stay("delete", "none", "none", found)
        ELSE \E answer \in Answers :
               CASE answer = "yes" ->
                      /\ SetDisk(DeleteScript(found, name))
                      /\ cout' = Command("delete", "delete", "", "yes", NoValue)
                      /\ IF current_script_name = Some(name)
                         THEN /\ current_script_name' = NoValue
                              /\ script_lines' = <<>>
                         ELSE UNCHANGED <<current_script_name, script_lines>>
                      /\ UNCHANGED <<cpc, temp_lines, edit_from>>
                 [] answer = "no" -> Stay("delete", "delete", "no", found)
                 [] OTHER -> Interrupted("delete", "delete", found)
     /\ UNCHANGED notCliVars

\* whether bash_executor.execute is called after "Execute this script?"
ExecuteUnasked(answer) == TRUE
ExecuteAllowed(answer) == answer = "yes"

\* _execute_script_content(content, name); the result or the exception of
\* execute is printed, and a Ctrl-C during the run reaches run()
ExecuteScriptContent(cmd, c, st) ==
  IF IsBlank(c) THEN Stay(cmd, "none", "none", st)
  ELSE \E answer \in Answers :
         IF answer = "interrupt" THEN Interrupted(cmd, "execute", st)
         ELSE /\ cout' = Command(cmd, "execute", c, answer,
                                 IF ExecuteAllowed(answer) THEN Some(c) ELSE NoValue)
              /\ cpc' \in IF ExecuteAllowed(answer) THEN {"main", "exited"}
                          ELSE {"main"}
              /\ SetDisk(st)
              /\ UNCHANGED <<current_script_name, script_lines, temp_lines,
                             edit_from>>

\* run: _run_current_script
CmdRun ==
  /\ cpc = "main"
  /\ IF script_lines = <<>> THEN Stay("run", "none", "none", Store)
     ELSE ExecuteScriptContent("run", Join(script_lines), Store)
  /\ UNCHANGED notCliVars

\* execute <name>: _execute_script
CmdExecute(name) ==
  LET loaded == LoadScript(Store, name)
  IN /\ cpc = "main"
     /\ IF loaded.sop.raised # "" THEN Stay("execute", "none", "none", loaded)
        ELSE ExecuteScriptContent("execute", loaded.sop.text, loaded)
     /\ UNCHANGED notCliVars

\* clear: _clear_script
CmdClear ==
  /\ cpc = "main"
  /\ IF script_lines = <<>> THEN Stay("clear", "none", "none", Store)
     ELSE \E answer \in Answers :
            CASE answer = "yes" ->
                   /\ script_lines' = <<>>
                   /\ cout' = Command("clear", "clear", "", "yes", NoValue)
                   /\ UNCHANGED <<cpc, current_script_name, temp_lines, edit_from,
                                  storeVars>>
              [] answer = "no" -> Stay("clear", "clear", "no", Store)
              [] OTHER -> Interrupted("clear", "clear", Store)
  /\ UNCHANGED notCliVars

\* list: _list_scripts
CmdList ==
  /\ cpc = "main"
  /\ Stay("list", "none", "none", ListScripts(Store))
  /\ UNCHANGED notCliVars

\* help, show, an unknown command, a command that lacks its argument: print
CmdPrint ==
  /\ cpc = "main"
  /\ Stay("print", "none", "none", Store)
  /\ UNCHANGED notCliVars

\* Ctrl-C at the prompt of run()
MainInterrupt ==
  /\ cpc = "main"
  /\ Interrupted("ctrl-c", "none", Store)
  /\ UNCHANGED notCliVars

\* Ctrl-D at the prompt of run(): EOFError ends the loop
MainEof ==
  /\ cpc = "main"
  /\ cpc' = "exited"
  /\ cout' = Command("eof", "none", "", "none", NoValue)
  /\ UNCHANGED <<current_script_name, script_lines, temp_lines, edit_from, storeVars>>
  /\ UNCHANGED notCliVars

\* the line of an editing session that commits temp_lines
DoneIsCancel == ":cancel"
DoneCommand == ":done"

\* the editing session is left: its history ends
LeaveSession(to) ==
  /\ cpc' \in to
  /\ edit_from' = <<>>
  /\ temp_lines' = <<>>

\* one line typed at the prompt of the editing session
EditType(raw) ==
  LET line == RStrip(raw)
  IN /\ cpc = "edit"
     /\ line \in {DoneCommand, ":cancel", ":show", ":clear"} \/ Len(temp_lines) < MaxLines
     /\ cout' = Command(IF StartsWith(line, ":") THEN line ELSE "text",
                        "none", "", "none", NoValue)
     /\ IF line = DoneCommand
        THEN /\ script_lines' = temp_lines
             /\ LeaveSession({"main"})
        ELSE IF line = ":cancel"
        THEN /\ LeaveSession({"main"})
             /\ UNCHANGED script_lines
        ELSE IF line = ":show"
        THEN UNCHANGED <<cpc, script_lines, temp_lines, edit_from>>
        ELSE IF line = ":clear"
        THEN /\ temp_lines' = <<>>
             /\ UNCHANGED <<cpc, script_lines, edit_from>>
        ELSE /\ temp_lines' = Append(temp_lines, line)
             /\ UNCHANGED <<cpc, script_lines, edit_from>>
     /\ UNCHANGED <<current_script_name, storeVars>>
     /\ UNCHANGED notCliVars

\* Ctrl-C at the prompt of the editing session: "Cancel editing?"
EditInterrupt ==
  /\ cpc = "edit"
  /\ \E answer \in Answers :
       /\ cout' = Command("ctrl-c", "cancel", "", answer, NoValue)
       /\ CASE answer = "yes" -> LeaveSession({"main"})
            [] answer = "no" -> UNCHANGED <<cpc, edit_from, temp_lines>>
            [] OTHER -> LeaveSession({"main", "exited"})
  /\ UNCHANGED <<current_script_name, script_lines, storeVars>>
  /\ UNCHANGED notCliVars

\* Ctrl-D at the prompt of the editing session: EOFError, reported by
\* _execute_command
EditEof ==
  /\ cpc = "edit"
  /\ LeaveSession({"main"})
  /\ cout' = Command("eof", "none", "", "none", NoValue)
  /\ UNCHANGED <<current_script_name, script_lines, storeVars>>
  /\ UNCHANGED notCliVars

CliNext ==
  \/ CmdExit
  \/ \E name \in CliNames : CmdNew(name)
  \/ CmdNewPrompt
  \/ \E name \in CliNames : CmdEditName(name)
  \/ CmdEdit
  \/ \E name \in CliNames : CmdLoad(name)
  \/ \E arg \in {NoValue} \cup {Some(name) : name \in CliNames} : CmdSave(arg)
  \/ \E name \in CliNames : CmdDelete(name)
  \/ CmdRun
  \/ \E name \in CliNames : CmdExecute(name)
  \/ CmdClear
  \/ CmdList
  \/ CmdPrint
  \/ MainInterrupt
  \/ MainEof
  \/ \E raw \in EditInputs : EditType(raw)
  \/ EditInterrupt
  \/ EditEof

CliSpec == Init /\ [][CliNext]_vars

(* ------------------------------------------------------------- claims *)

HasResult == result # NoValue
Res == ValueOf(result)
Returned == pc = "idle" /\ outcome = "result"
\* the call in flight or just ended got past the emptiness check
CallWasNonEmpty == Len(trail) >= 2 /\ trail[2] = "Preparing"
WasRunning == \E i \in 1..Len(trail) : trail[i] = "Running"

\* C1: whenever no execute call is in flight on the controller, its
\* current_process handle is None, whichever way the last call ended.
C1_HandleNoneWhenIdle == pc = "idle" => handle = None

\* C1 witness: a call that had set the handle has returned through the
\* timeout path and the handle is None again.
C1_Witness == Returned /\ WasRunning /\ Res.timeout /\ handle = None

\* C2 (as claimed): once a timed-out execute has returned, no process of the
\* run's group is alive, neither the bash process nor a descendant.
C2_NoSurvivorAfterTimeout ==
  (Returned /\ Res.timeout /\ effTimeout > 0) => ~GroupAlive

\* C3 (as claimed): interrupt_execution never raises, however its steps
\* interleave with the run thread's assignment and clearing of the handle.
C3_InterruptNeverRaises == iout # "AttributeError"

\* C4 (as claimed): a call on non-empty content always ends by returning an
\* ExecutionResult, never by an exception.
C4_NonEmptyNeverRaises == (pc = "idle" /\ CallWasNonEmpty) => outcome = "result"

\* C5 (as claimed): if the bash process exited before the effective timeout
\* elapsed, the result has timeout=False and its returncode is the exit
\* status of that process, whatever descendants were left behind.
C5_ExitInTimeReported ==
  (Returned /\ exitedInTime /\ effTimeout > 0) =>
     (~Res.timeout /\ Res.returncode = status)

\* C6: every result with timeout=True has returncode -1, empty stdout and the
\* stderr text "Script execution timed out after <N> seconds", N being the
\* effective timeout of the call.
C6_TimeoutResultShape ==
  (HasResult /\ Res.timeout) =>
     /\ Res.returncode = -1
     /\ Res.stdout = ""
     /\ Res.stderr = "Script execution timed out after " \o ToString(effTimeout)
                       \o " seconds"

\* C6 witness: a call with an explicit timeout argument of one second has
\* returned a timed-out result.
C6_Witness == Returned /\ Res.timeout /\ effTimeout = 1

Last(q) == q[Len(q)]
KillAppended == Len(sigLog') > Len(sigLog) /\ Last(sigLog') = SIGKILL

\* C7: on the timeout path SIGTERM goes to the group first; the grace wait
\* lasts at most 5 seconds; SIGKILL is sent only after SIGTERM, only when the
\* grace wait ended with the child still not exited, never when the child
\* exited within the grace period, and the wait that follows it ends only
\* with the child's exit.
C7_EscalationOrder ==
  /\ [](/\ sigLog \in {<<>>, <<SIGTERM>>, <<SIGTERM, SIGKILL>>}
        /\ pc = "grace" => (sigLog = <<SIGTERM>> /\ elapsed - graceStart <= GracePeriod)
        /\ pc \in {"communicate", "sigterm"} => sigLog = <<>>)
  /\ [][/\ KillAppended => (pc = "sigkill" /\ sigLog = <<SIGTERM>> /\ pc' = "wait_kill")
        /\ (pc' = "sigkill" /\ pc # "sigkill") =>
              (pc = "grace" /\ leader = "alive" /\ elapsed - graceStart = GracePeriod)
        /\ (pc = "grace" /\ leader # "alive" /\ pc' # "grace") =>
              (pc' = "timed_out" /\ sigLog' = <<SIGTERM>>)
        /\ (pc = "wait_kill" /\ pc' # "wait_kill") =>
              (leader = "zombie" /\ leader' = "reaped")]_vars

\* C7 witness: a run whose child ignored SIGTERM was sent SIGKILL after the
\* full grace period and has returned.
C7_Witness ==
  Returned /\ sigLog = <<SIGTERM, SIGKILL>> /\ Res.execution_time = effTimeout + GracePeriod

Spawned == pc \in {"assign", "communicate", "sigterm", "grace", "sigkill",
                   "wait_kill", "timed_out", "finally", "unlink"}

\* C8: a call on non-empty content with a positive effective timeout always
\* returns, and at no moment of the call have more than timeout + 5 seconds
\* passed since the child was spawned, whatever signals the script ignores
\* and whatever descendants hold the pipes.
C8_ReturnsWithinBound ==
  /\ []((Spawned /\ effTimeout > 0) => elapsed <= effTimeout + GracePeriod)
  /\ []((Returned /\ effTimeout > 0) => Res.execution_time <= effTimeout + GracePeriod)
  /\ (pc # "idle") ~> (pc = "idle")

\* C8 witness: a call returned exactly timeout + 5 seconds after the spawn,
\* its child having ignored SIGTERM until SIGKILL ended it and the
\* descendant it had started.
C8_Witness ==
  /\ Returned /\ effTimeout > 0
  /\ Res.execution_time = effTimeout + GracePeriod
  /\ sigLog = <<SIGTERM, SIGKILL>>
  /\ desc = "dead"

Outcomes == {"Completed", "TimedOut", "SpawnFailed"}
OutcomeAppended == Len(trail') > Len(trail) /\ Len(trail) > 0 /\ Last(trail') \in Outcomes

OnlyWhitespace(c) == \A i \in 1..Len(c) : CharAt(c, i) \in Whitespace

\* C10: execute on content that is empty or only whitespace raises ValueError
\* as its first step: no temp file, no process, and the handle and all other
\* state of the controller are as they were; such content never gets to the
\* temp file.
C10_BlankRaisesFirst ==
  /\ []((pc = "called" /\ OnlyWhitespace(content)) =>
          (tmp = "none" /\ leader = "none" /\ trail = <<"Idle">>))
  /\ []((pc \in {"mktemp", "write"}) => ~OnlyWhitespace(content))
  /\ [][(pc = "called" /\ OnlyWhitespace(content) /\ pc' # "called") =>
          /\ pc' = "idle" /\ outcome' = "ValueError"
          /\ UNCHANGED <<handle, self_timeout, tmp, sigLog, result>>
          /\ UNCHANGED <<procVars, timeVars>>]_vars

\* C10 witness: a call with whitespace-only content has raised ValueError.
C10_Witness ==
  pc = "idle" /\ outcome = "ValueError" /\ Len(content) > 0 /\ tmp = "none"

\* C11 (as claimed): whenever execute has returned or raised, the temporary
\* script file of the call is gone, unless the os.unlink of the finally block
\* was attempted and failed.
C11_TempFileDeleted ==
  (pc = "idle" /\ outcome # "none") => tmp \in {"none", "unlink_failed"}

PopenRaised == trail = <<"Idle", "Preparing", "SpawnFailed", "Idle">>

\* C12: when Popen raises, _run_script does not raise: the call returns a
\* result with returncode -1, empty stdout, timeout=False and the stderr text
\* "Execution error: " followed by the description of the failure; no child
\* exists, and the failed spawn is followed by the error branch and the
\* cleanup only, never by another Popen.
C12_SpawnFailureResult ==
  /\ []((pc = "idle" /\ outcome # "none" /\ PopenRaised) =>
          /\ outcome = "result"
          /\ Res.returncode = -1
          /\ Res.stdout = ""
          /\ Res.timeout = FALSE
          /\ \E e \in SpawnErrors : Res.stderr = "Execution error: " \o e
          /\ leader = "none" /\ sigLog = <<>>)
  /\ [][/\ (pc = "except" /\ pc' # "except") => (pc' = "finally" /\ pend' = None)
        /\ (pc' = "popen" /\ pc # "popen") => pc = "chmod"
        /\ (pc = "popen" /\ pc' # "popen") => pc' \in {"assign", "except"}]_vars

\* C12 witness: Popen failed with "permission denied" and the call returned
\* the error result.
C12_Witness ==
  /\ Returned /\ PopenRaised
  /\ Res.stderr = "Execution error: [Errno 13] Permission denied: '/bin/bash'"

SignalStage == pc \in {"sigterm", "sigkill"}
TimedOutCall == \E i \in 1..Len(trail) : trail[i] = "TimedOut"

\* C13: when os.getpgid or os.killpg fails during timeout handling because
\* the child is gone, the error is swallowed: the step leaves the signal
\* stage without a signal sent, with no exception pending, towards the
\* timeout result, and the child is not running at that moment; the call
\* then returns timeout=True and returncode -1, never "Execution error".
C13_SignalFailureSwallowed ==
  /\ []((pc = "idle" /\ outcome # "none" /\ TimedOutCall) =>
          /\ outcome = "result"
          /\ Res.timeout /\ Res.returncode = -1
          /\ Res.stderr = "Script execution timed out after " \o ToString(effTimeout)
                            \o " seconds")
  /\ [](pc = "timed_out" => pend = None)
  /\ [][(SignalStage /\ pc' # pc /\ sigLog' = sigLog) =>
          (pc' = "timed_out" /\ pend' = None /\ leader # "alive"
             /\ UNCHANGED <<result, outcome, handle>>)]_vars

\* C13 witness: the child exited between the expiry of communicate and the
\* SIGTERM, the send failed, and the call returned the timed-out result
\* without any signal sent.
C13_Witness ==
  Returned /\ TimedOutCall /\ Res.timeout /\ sigLog = <<>> /\ leader = "zombie"

\* C14: interrupt_execution that finds the handle None returns at once: no
\* signal is sent, nothing is raised, and neither the controller (handle,
\* default timeout) nor the call in flight nor any process changes.
C14_InterruptIdleNoop ==
  /\ [][(ipc = "check" /\ handle = None /\ ipc' # ipc) =>
          /\ ipc' = "idle" /\ iout' = "noop"
          /\ UNCHANGED <<handle, self_timeout, pc, tmp, sigLog, ipid, ipgid>>
          /\ UNCHANGED <<procVars, timeVars, resVars>>]_vars
  /\ [](iout = "noop" => (ipc = "idle" /\ ipid = "none" /\ ipgid = "none"))

\* C14 witness: interrupt_execution was called after a run had returned, found
\* the handle None and did nothing.
C14_Witness == Returned /\ WasRunning /\ iout = "noop" /\ handle = None

InterruptSends == ipc = "killpg" /\ ipgid = "run" /\ leader = "alive" /\ ipc' # ipc

\* C15: interrupt_execution that reaches a running child makes one killpg
\* call with SIGINT (a child that does not ignore SIGINT dies with status -2,
\* one that ignores it stays alive; nothing is added to the signals of the
\* timeout path), returns in that same step without waiting, and leaves the
\* handle and the run thread where they were.  A script that ignores SIGINT
\* is still running afterwards; the execute call in flight nevertheless
\* returns, and if the script was still running when the timeout expired it
\* was ended by the escalation and the result is the timed-out one.
C15_InterruptIsAdvisory ==
  /\ [][InterruptSends =>
          /\ ipc' = "idle" /\ ipgid' = "none" /\ iout' = "sent"
          /\ UNCHANGED <<handle, pc, sigLog, result, outcome, elapsed, effTimeout>>
          /\ IF lprof.ignInt
             THEN leader' = "alive" /\ UNCHANGED <<status, lprof>>
             ELSE leader' = "zombie" /\ status' = -2]_vars
  /\ []((pc = "idle" /\ outcome # "none" /\ TimedOutCall) =>
          (leader # "alive" /\ outcome = "result" /\ Res.timeout))
  /\ (pc = "communicate" /\ leader = "alive" /\ lprof.ignInt /\ iout = "sent")
        ~> (Returned /\ leader # "alive")

\* C15 witness: SIGINT was sent to the group of the run in flight, the script
\* ignores it and is still running, the handle still set and the run thread
\* still waiting in communicate.
C15_Witness ==
  /\ pc = "communicate" /\ handle = "proc"
  /\ leader = "alive" /\ lprof.ignInt
  /\ iout = "sent" /\ ipc = "idle"

InRun == pc \notin {"idle", "called"}

\* C16 (as claimed): the effective timeout fixed by execute is the timeout
\* argument when that is positive and the controller's default otherwise;
\* it does not change for the rest of the call, and the clock it is measured
\* against never goes back.
C16_EffectiveTimeoutFixed ==
  [][/\ (pc = "called" /\ pc' = "mktemp") =>
          effTimeout' = IF timeoutArg # NoValue /\ ValueOf(timeoutArg) > 0
                        THEN ValueOf(timeoutArg) ELSE self_timeout
     /\ (InRun /\ pc' # "idle") => effTimeout' = effTimeout
     /\ (pc = "communicate" /\ pc' = "communicate") => elapsed' >= elapsed]_vars

Prepared == pc = "prepared"

\* what follows the header and the empty line in a prepared script
ScriptBody(s) == SubSeq(s, Len(SafetyHeader) + 3, Len(s))

\* number of places of s at which the text p occurs
Occurrences(s, p) ==
  Cardinality({i \in 1..Len(s) : i + Len(p) - 1 <= Len(s) /\ SubSeq(s, i, i + Len(p) - 1) = p})

\* C17 (as claimed): when the first line of the trimmed content begins with
\* "#!", the prepared script starts with the wrapper's "#!/bin/bash" line and
\* what follows the header is the trimmed content without that first line.
C17_DirectiveRemoved ==
  (Prepared /\ StartsWith(Strip(content), "#!")) =>
     /\ StartsWith(script, "#!/bin/bash\n")
     /\ ScriptBody(script) = AfterFirstLine(Strip(content))

\* the content with its directive line, if it has one, taken out and nothing
\* else touched
DirectiveLineRemoved(c) ==
  IF StartsWith(LStrip(c), "#!") THEN AfterFirstLine(LStrip(c)) ELSE c

\* C18 (as claimed): the prepared script is the fixed header, an empty line,
\* and then the content with only its directive line removed, character for
\* character.
C18_ContentVerbatim ==
  Prepared =>
     script = SafetyHeader \o "\n\n" \o DirectiveLineRemoved(content)

\* C19 (as claimed): preparing the content with its directive line already
\* removed gives the same script as preparing the content itself, and the
\* preamble lines of the header occur exactly once in it.
C19_DirectiveIdempotent ==
  Prepared =>
     /\ PrepareScript(DirectiveLineRemoved(content)) = script
     /\ Occurrences(script, "set -euo pipefail") = 1
     /\ Occurrences(script, "trap cleanup EXIT") = 1

ValEnded == vpc = "idle" /\ vout.kind \notin {"none", "pending"}

\* C20 (as claimed): every validate_script_syntax call ends by returning a
\* value, never by an exception, with the temporary file it created removed
\* (or its removal attempted and the failure swallowed), and no step of the
\* call changes the controller's current_process handle.
C20_ValidateCleansUp ==
  /\ [](ValEnded => (vout.kind = "returned" /\ vtmp \in {"none", "unlink_failed"}))
  /\ [][vpc # vpc' => handle' = handle]_vars

ValReturned == vpc = "idle" /\ vout.kind = "returned"
ParsedOk == vrun.kind = "exit" /\ vrun.rc = 0

\* C21: the text validate_script_syntax hands to "bash -n" is the content
\* itself, without header; the value returned has valid=True exactly when
\* the run exited with status 0; every other return (non-zero status,
\* timeout, exception of the run, blank content) has valid=False and a
\* non-empty message, which is the trimmed stderr of the interpreter whenever
\* that is not blank.
C21_ValidateResult ==
  /\ (vpc \in {"run", "unlink"}) => (vfile = vcontent /\ vtmp = "written")
  /\ ValReturned =>
       /\ vout.valid <=> ParsedOk
       /\ ~vout.valid => vout.message # ""
       /\ (vrun.kind = "exit" /\ vrun.rc # 0 /\ ~IsBlank(vrun.stderr)) =>
             vout.message = Strip(vrun.stderr)
       /\ vrun.kind = "timeout" => vout.message = "Syntax check timed out"
       /\ IsBlank(vcontent) => (vrun.kind = "none" /\ vtmp = "none")

\* C21 witness: "bash -n" exited with status 2 and empty stderr, and the
\* call returned valid=False with the fallback message.
C21_Witness ==
  /\ ValReturned /\ vrun.kind = "exit" /\ vrun.rc = 2 /\ vrun.stderr = ""
  /\ ~vout.valid /\ vout.message = "Syntax error detected"

DepsDone == pc = "deps_done"

\* C22: the list get_script_dependencies returns is in strictly ascending
\* order of its strings (so it has no duplicates), contains none of the
\* fifteen filtered keywords and builtins, and the call leaves the
\* controller's handle and default timeout as they were.
C22_DependenciesSorted ==
  DepsDone =>
     /\ \A i \in 1..(Len(deps) - 1) : StrLess(deps[i], deps[i + 1])
     /\ \A i \in 1..Len(deps) :
          deps[i] \notin {"if", "then", "else", "fi", "for", "while", "do", "done",
                          "case", "esac", "function", "return", "exit", "echo",
                          "printf"}
     /\ handle = None /\ self_timeout = DefaultTimeout

\* C22 witness: a script with "if", "then" and "fi" in command position and a
\* "which cat" gave the list cat, which.
C22_Witness ==
  DepsDone /\ content = "if ls; then which cat; fi\n" /\ deps = <<"cat", "which">>

\* the step is a call of one of these ScriptManager operations
StoreStep(ops) == sop'.op \in ops

\* no script file is stored under the name: the name has no path, or no
\* file is at its path
NoFileUnder(name) ==
  ScriptPaths[name] = NoValue \/ ValueOf(ScriptPaths[name]) \notin DOMAIN files

\* C23 (as claimed): load_script and delete_script called with a name under
\* which no script file is stored fail with FileNotFoundError and leave the
\* stored files and the metadata map unchanged.
C23_AbsentNameNotFound ==
  [][(StoreStep({"load_script", "delete_script"}) /\ NoFileUnder(sop'.name))
       => /\ sop'.raised = "FileNotFoundError"
          /\ UNCHANGED <<files, metadata, metadata_file>>]_vars

\* C23 (amended): load_script and delete_script called with a name under
\* which no script file is stored fail and leave the stored files and the
\* metadata map unchanged; the failure is FileNotFoundError when the name
\* keeps at least one character after sanitisation, and ValueError when it
\* keeps none.
C23_AbsentNameFails ==
  [][(StoreStep({"load_script", "delete_script"}) /\ NoFileUnder(sop'.name))
       => /\ sop'.raised = IF ScriptPaths[sop'.name] = NoValue THEN "ValueError"
                           ELSE "FileNotFoundError"
          /\ UNCHANGED <<files, metadata, metadata_file>>]_vars

\* delete_script("a") found no file while other scripts were stored
C23_Witness ==
  /\ sop.op = "delete_script"
  /\ sop.name = "a"
  /\ sop.raised = "FileNotFoundError"
  /\ DOMAIN files = {".a.sh"}
  /\ "a" \in DOMAIN metadata

\* the last successful call under the name was a save_script
IsSaved(name) == name \in DOMAIN saved /\ saved[name] # NoValue

\* the last successful call under the name was a delete_script
IsDeleted(name) == name \in DOMAIN saved /\ saved[name] = NoValue

\* C24 (as claimed): after save_script(name, content) succeeds, and until a
\* later save or delete under that same name, script_exists(name) is true and
\* load_script(name) returns exactly content; after delete_script(name)
\* succeeds, script_exists(name) is false and load_script(name) fails with
\* FileNotFoundError.
C24_SaveLoadRoundTrip ==
  [][/\ (StoreStep({"load_script"}) /\ IsSaved(sop'.name))
          => sop'.raised = "" /\ sop'.text = ValueOf(saved[sop'.name])
     /\ (StoreStep({"script_exists"}) /\ IsSaved(sop'.name))
          => sop'.raised = "" /\ sop'.flag
     /\ (StoreStep({"load_script"}) /\ IsDeleted(sop'.name))
          => sop'.raised = "FileNotFoundError"
     /\ (StoreStep({"script_exists"}) /\ IsDeleted(sop'.name))
          => sop'.raised = "" /\ ~sop'.flag]_vars

\* the names of the list are in ascending order, none twice
Ascending(listing) ==
  \A i, j \in 1..Len(listing) : i < j => StrLess(listing[i].name, listing[j].name)

C25_ExecuteOnlyConfirmed ==
  [][/\ cout'.executed # NoValue
          => /\ cout'.cmd \in {"run", "execute"}
             /\ cout'.asked = "execute"
             /\ cout'.answer = "yes"
             /\ cout'.shown = ValueOf(cout'.executed)
     /\ (cout'.asked = "execute" /\ cout'.answer = "no")
          => /\ cout'.executed = NoValue
             /\ UNCHANGED <<current_script_name, script_lines>>]_vars

\* execute a ran the saved script after a yes, while the current script,
\* with other lines, stayed as it was
C25_Witness ==
  /\ cout.cmd = "execute"
  /\ cout.answer = "yes"
  /\ cout.executed = Some("x")
  /\ current_script_name = Some("B")
  /\ script_lines = <<"">>

\* C26: in an editing session the lines typed reach script_lines only by
\* :done; every other step of the session, :clear included, and leaving it
\* by :cancel or by a confirmed Ctrl-C leave script_lines exactly as they
\* were when the session started.
C26_CommitOnlyOnDone ==
  [][cpc = "edit"
       => script_lines' = IF cout'.cmd = ":done" THEN temp_lines ELSE edit_from]_vars

\* a session on a script of one line was left by :cancel and the line is
\* still there
C26_Witness ==
  /\ cpc = "main"
  /\ cout.cmd = ":cancel"
  /\ script_lines = <<"x">>

\* the current script is not empty and differs from the copy saved under the
\* current name, or no copy is saved under it
HasUnsaved ==
  /\ script_lines # <<>>
  /\ \/ current_script_name = NoValue
     \/ ScriptPaths[ValueOf(current_script_name)] = NoValue
     \/ ValueOf(ScriptPaths[ValueOf(current_script_name)]) \notin DOMAIN files
     \/ TextRead[files[ValueOf(ScriptPaths[ValueOf(current_script_name)])]]
          # Join(script_lines)

\* C27: new, edit <name>, load <name> and exit/quit replace or discard a
\* current script with unsaved changes only when the user has answered yes
\* to the unsaved-changes prompt; when the user answers no, the current
\* script name and lines are unchanged and the CLI keeps running.
C27_UnsavedGuard ==
  [][/\ (cout'.cmd \in {"new", "edit", "load", "exit"} /\ HasUnsaved
          /\ cout'.answer # "interrupt")
          => \/ cout'.asked = "unsaved" /\ cout'.answer = "yes"
             \/ /\ UNCHANGED <<current_script_name, script_lines>>
                /\ cpc' = "main"
     /\ (cout'.asked = "unsaved" /\ cout'.answer = "no")
          => /\ UNCHANGED <<current_script_name, script_lines>>
             /\ cpc' = "main"]_vars

\* load B was refused at the prompt: the changed script a is still current
C27_Witness ==
  /\ cout.cmd = "load"
  /\ cout.asked = "unsaved"
  /\ cout.answer = "no"
  /\ current_script_name = Some("a")
  /\ script_lines = <<"x">>
  /\ "a.sh" \in DOMAIN files
  /\ files["a.sh"] = ""
  /\ "B.sh" \in DOMAIN files

\* the call went through the normal-completion return of _run_script
CompletedCall == \E i \in 1..Len(trail) : trail[i] = "Completed"

\* C29 (as claimed): when execute has returned by the normal-completion path
\* (timeout=False with the exit status of the script), no process of the
\* run's process group is still alive.
C29_NoOrphanAfterCompletion ==
  (Returned /\ CompletedCall /\ ~Res.timeout) => ~GroupAlive

\* C30 (as claimed): in every interleaving of interrupt_execution with an
\* execute in flight, the signal interrupt_execution sends goes to the
\* process group created for that run and to no other, also when the child
\* has exited and been reaped while the handle is not yet cleared.
C30_InterruptOnlyOwnGroup == iout \notin {"sent_old", "sent_foreign"}

\* C31 (as claimed): a result with returncode = -1 and timeout = False comes from the
\* internal-failure path only, its stderr beginning with "Execution error: ";
\* a script that ran to an end, by exit or by a signal, never gives
\* returncode = -1.
C31_SentinelUnambiguous ==
  (Returned /\ Res.returncode = -1 /\ ~Res.timeout) =>
    /\ ~CompletedCall
    /\ StartsWith(Res.stderr, "Execution error: ")

\* save_script accepts the name: it is not blank and has a path
Accepted(name) == ~IsBlank(name) /\ ScriptPaths[name] # NoValue

\* what a caller sees of the script under a name: what load_script raises or
\* returns, and what script_exists answers
Seen(st, name) ==
  [raised |-> LoadScript(st, name).sop.raised,
   text |-> LoadScript(st, name).sop.text,
   exists |-> ScriptExists(st, name).sop.flag]

\* C32 (as claimed): a successful save_script or delete_script under a name A
\* changes neither what load_script(B) returns nor whether script_exists(B)
\* holds, for every accepted name B other than A, names that differ only in
\* sanitised characters or in a trailing ".sh" included.
C32_NamesIndependent ==
  [][(StoreStep({"save_script", "delete_script"}) /\ sop'.raised = "")
       => \A B \in StoreNames \ {sop'.name} :
            Accepted(B) => Seen(Store', B) = Seen(Store, B)]_vars

\* C33 (as claimed): the metadata map and the stored files agree: every key
\* of the map names a script whose file exists, and every stored script file
\* has an entry whose 'filename' is that file and whose 'size' is the byte
\* length of its content.
C33_MetadataAgrees ==
  /\ \A name \in DOMAIN metadata : ~NoFileUnder(name)
  /\ \A f \in DOMAIN files :
       \E name \in DOMAIN metadata :
         /\ metadata[name].filename = f
         /\ metadata[name].size = Utf8Len(files[f])

\* self.script_dir / f is a direct child of script_dir: f is one path
\* component, and not the directory itself or its parent
DirectChild(f) ==
  /\ f \notin {"", ".", ".."}
  /\ \A i \in 1..Len(f) : CharAt(f, i) # "/"

\* C34: for every name _get_script_path raises ValueError or returns a direct
\* child of script_dir whose file name ends in ".sh"; the files that
\* save_script, load_script, delete_script and script_exists read, write or
\* delete are such children, whatever separators or ".." the name holds.
C34_PathInsideScriptDir ==
  /\ \A f \in DOMAIN files : DirectChild(f) /\ EndsWith(f, ".sh")
  /\ sop.op \in {"save_script", "load_script", "delete_script", "script_exists"} =>
       \E path \in {ScriptPaths[sop.name]} :
         IF path = NoValue THEN sop.raised = "ValueError"
         ELSE DirectChild(ValueOf(path)) /\ EndsWith(ValueOf(path), ".sh")

\* a script saved under "../a" is the file "..a.sh" of script_dir
C34_Witness ==
  /\ sop.op = "save_script"
  /\ sop.name = "../a"
  /\ sop.raised = ""
  /\ DOMAIN files = {"..a.sh"}

====
